---- MODULE Spec2Model ----
(***************************************************************************)
(* winbear: the debug event loop (src/src/debugger.rs), the execution      *)
(* logger that handles its events (src/src/execution_logger.rs) and the    *)
(* gcc-like recognizer of citnames (src/citnames/src/semantic).            *)
(***************************************************************************)
EXTENDS Integers, Sequences, FiniteSets, TLC

(***************************************************************************)
(* Bounds of the model.                                                    *)
(***************************************************************************)
\* process ids the kernel hands out (pids are reused after an exit)
NumPids == 2
\* debug events delivered to one run of the loop
MaxEvents == 5
\* exit codes are 0..MaxExitCode
MaxExitCode == 1
\* arguments of an execution after argv[0]
MaxArgs == 3
\* the longest argument vector made of the tokens of LongTokens only
MaxLongArgs == 6
\* the arguments after argv[0] of an execution given to the Build
MaxBuildArgs == 3

Pids == 1..NumPids
ExitCodes == 0..MaxExitCode

(***************************************************************************)
(* debugger.rs: the types of the handler contract.                         *)
(***************************************************************************)
ExceptionContinuation == {"Handled", "NotHandled"}

Continue(c) == [kind |-> "Continue", continuation |-> c]
ExitDetach(c) == [kind |-> "ExitDetach", continuation |-> c]
Exit == [kind |-> "Exit", continuation |-> "None"]
NoResponse == [kind |-> "None", continuation |-> "None"]

DebugEventResponse ==
    {Continue(c) : c \in ExceptionContinuation}
        \cup {ExitDetach(c) : c \in ExceptionContinuation}
        \cup {Exit}

\* the ten variants wait_for_debug_event decodes an event code into
DebugEventInfo ==
    {"Unknown", "Exception", "CreateThread", "CreateProcess", "ExitThread",
     "ExitProcess", "LoadDLL", "UnloadDLL", "OutputDebugString", "RIP"}

DebugEvent == [process_id : Pids, info : DebugEventInfo]
NoEvent == [process_id |-> 0, info |-> "None"]

(***************************************************************************)
(* execution_logger.rs: the logger.                                        *)
(***************************************************************************)
\* Event.at is the wall time of the push; the model's clock is the index of
\* the debug event being handled.
StartEvent(at) == [at |-> at, kind |-> "Start", status |-> 0]
StopEvent(at, status) == [at |-> at, kind |-> "Stop", status |-> status]

\* ExecutionLogger::new
NewLogger ==
    [extant_processes |-> <<>>, executions |-> <<>>, next_id |-> 0]

\* The calls of add_execution that can fail, in the order they are made;
\* "none" is the snapshot in which every call succeeds.
SnapshotSteps ==
    <<"open", "image_name", "command_line", "command_line_to_argv",
      "environment", "current_directory", "parent_process_id">>
SnapshotFailures == {SnapshotSteps[i] : i \in 1..Len(SnapshotSteps)} \cup {"none"}

\* BTreeMap / HashMap insert: the map with key k bound to v
MapInsert(m, k, v) == [x \in DOMAIN m \cup {k} |-> IF x = k THEN v ELSE m[x]]
\* HashMap remove
MapRemove(m, k) == [x \in DOMAIN m \ {k} |-> m[x]]

\* add_execution from the first insert on: the two inserts, each followed by
\* the assert that panics when the key was there, then the next id
insert_execution(self, process_id, now) ==
    LET execution == [pid |-> process_id, events |-> <<StartEvent(now)>>]
        inserted_execution == self.next_id \notin DOMAIN self.executions
        self1 == [self EXCEPT !.executions =
                      MapInsert(self.executions, self.next_id, execution)]
        inserted_pid_map == process_id \notin DOMAIN self.extant_processes
        self2 == [self1 EXCEPT !.extant_processes =
                      MapInsert(self1.extant_processes, process_id, self.next_id)]
    IN  IF ~inserted_execution THEN [outcome |-> "panic", self |-> self1]
        ELSE IF ~inserted_pid_map THEN [outcome |-> "panic", self |-> self2]
        ELSE [outcome |-> "Ok",
              self |-> [self2 EXCEPT !.next_id = self.next_id + 1]]

\* add_execution with the execution inserted before the parent pid is read
add_execution_InsertsFirst(self, process_id, failure, now) ==
    IF failure = "none" THEN insert_execution(self, process_id, now)
    ELSE IF failure = "parent_process_id"
    THEN [outcome |-> "Err",
          self |-> [self EXCEPT !.executions =
                        MapInsert(self.executions, self.next_id,
                                  [pid |-> process_id,
                                   events |-> <<StartEvent(now)>>])]]
    ELSE [outcome |-> "Err", self |-> self]

\* add_execution with the id taken before the snapshot
add_execution_ConsumesId(self, process_id, failure, now) ==
    IF failure = "none" THEN insert_execution(self, process_id, now)
    ELSE [outcome |-> "Err", self |-> [self EXCEPT !.next_id = @ + 1]]

\* add_execution(process_id): every fallible call is made before the two
\* inserts, so a failure returns Err with self untouched.
add_execution(self, process_id, failure, now) ==
    IF failure # "none"
    THEN [outcome |-> "Err", self |-> self]
    ELSE insert_execution(self, process_id, now)

\* What the operating system answers to finish_execution's two calls.
FinishFailures == {"none", "open", "exit_code"}

\* finish_execution without the push of the Stop event
finish_execution_DropsStop(self, process_id, failure, status, now) ==
    IF failure # "none" \/ process_id \notin DOMAIN self.extant_processes
    THEN [outcome |-> "panic", self |-> self]
    ELSE [outcome |-> "Ok",
          self |-> [self EXCEPT !.extant_processes = MapRemove(@, process_id)]]

\* finish_execution(process_id): every step is unwrapped, so a failed open,
\* an unknown pid or a failed exit_code panics.  exit_code is evaluated
\* before the push, so a panic leaves self untouched.
finish_execution(self, process_id, failure, status, now) ==
    IF failure = "open" THEN [outcome |-> "panic", self |-> self]
    ELSE IF process_id \notin DOMAIN self.extant_processes
    THEN [outcome |-> "panic", self |-> self]
    ELSE LET execution_id == self.extant_processes[process_id]
         IN  IF execution_id \notin DOMAIN self.executions
             THEN [outcome |-> "panic", self |-> self]
             ELSE IF failure = "exit_code" THEN [outcome |-> "panic", self |-> self]
             ELSE [outcome |-> "Ok",
                   self |-> [self EXCEPT
                       !.executions[execution_id].events =
                           Append(@, StopEvent(now, status)),
                       !.extant_processes = MapRemove(@, process_id)]]

\* is_done asking the map of the executions
is_done_Executions(self) == DOMAIN self.executions = {}

\* is_done
is_done(self) == DOMAIN self.extant_processes = {}

\* ExecutionLogger::handle_event.  lines is the number of lines it prints to
\* stderr; response is NoResponse when the handler panics.
handle_event(self, ev, snapshot, finish, status, now) ==
    IF ev.info = "CreateProcess"
    THEN LET r == add_execution(self, ev.process_id, snapshot, now)
         IN  IF r.outcome = "panic"
             THEN [panic |-> TRUE, response |-> NoResponse, self |-> r.self, lines |-> 0]
             ELSE [panic |-> FALSE, response |-> Continue("NotHandled"),
                   self |-> r.self,
                   lines |-> IF r.outcome = "Err" THEN 1 ELSE 0]
    ELSE IF ev.info = "ExitProcess"
    THEN LET r == finish_execution(self, ev.process_id, finish, status, now)
         IN  IF r.outcome = "panic"
             THEN [panic |-> TRUE, response |-> NoResponse, self |-> r.self, lines |-> 0]
             ELSE [panic |-> FALSE,
                   response |-> IF is_done(r.self) THEN ExitDetach("NotHandled")
                                ELSE Continue("NotHandled"),
                   self |-> r.self, lines |-> 0]
    ELSE [panic |-> FALSE, response |-> Continue("NotHandled"),
          self |-> self, lines |-> 0]

\* ExecutionLogger::executions: the values of the BTreeMap in key order
RECURSIVE ValuesInKeyOrder(_)
ValuesInKeyOrder(m) ==
    IF DOMAIN m = {} THEN <<>>
    ELSE LET k == CHOOSE x \in DOMAIN m : \A y \in DOMAIN m : x <= y
         IN  <<m[k]>> \o ValuesInKeyOrder(MapRemove(m, k))

executions(self) == ValuesInKeyOrder(self.executions)

(***************************************************************************)
(* citnames: strings.  A string is the sequence of its characters; str     *)
(* comparison is the comparison of the bytes.                              *)
(***************************************************************************)
Byte ==
    " " :> 32 @@ "!" :> 33 @@ "\"" :> 34 @@ "#" :> 35 @@ "$" :> 36 @@
    "%" :> 37 @@ "&" :> 38 @@ "'" :> 39 @@ "(" :> 40 @@ ")" :> 41 @@
    "*" :> 42 @@ "+" :> 43 @@ "," :> 44 @@ "-" :> 45 @@ "." :> 46 @@
    "/" :> 47 @@ "0" :> 48 @@ "1" :> 49 @@ "2" :> 50 @@ "3" :> 51 @@
    "4" :> 52 @@ "5" :> 53 @@ "6" :> 54 @@ "7" :> 55 @@ "8" :> 56 @@
    "9" :> 57 @@ ":" :> 58 @@ ";" :> 59 @@ "<" :> 60 @@ "=" :> 61 @@
    ">" :> 62 @@ "?" :> 63 @@ "@" :> 64 @@ "A" :> 65 @@ "B" :> 66 @@
    "C" :> 67 @@ "D" :> 68 @@ "E" :> 69 @@ "F" :> 70 @@ "G" :> 71 @@
    "H" :> 72 @@ "I" :> 73 @@ "J" :> 74 @@ "K" :> 75 @@ "L" :> 76 @@
    "M" :> 77 @@ "N" :> 78 @@ "O" :> 79 @@ "P" :> 80 @@ "Q" :> 81 @@
    "R" :> 82 @@ "S" :> 83 @@ "T" :> 84 @@ "U" :> 85 @@ "V" :> 86 @@
    "W" :> 87 @@ "X" :> 88 @@ "Y" :> 89 @@ "Z" :> 90 @@ "[" :> 91 @@ "\\" :> 92 @@
    "]" :> 93 @@ "^" :> 94 @@ "_" :> 95 @@
    "a" :> 97 @@ "b" :> 98 @@ "c" :> 99 @@ "d" :> 100 @@ "e" :> 101 @@
    "f" :> 102 @@ "g" :> 103 @@ "h" :> 104 @@ "i" :> 105 @@ "j" :> 106 @@
    "k" :> 107 @@ "l" :> 108 @@ "m" :> 109 @@ "n" :> 110 @@ "o" :> 111 @@
    "p" :> 112 @@ "q" :> 113 @@ "r" :> 114 @@ "s" :> 115 @@ "t" :> 116 @@
    "u" :> 117 @@ "v" :> 118 @@ "w" :> 119 @@ "x" :> 120 @@ "y" :> 121 @@
    "z" :> 122 @@ "{" :> 123 @@ "|" :> 124 @@ "}" :> 125 @@ "~" :> 126

Min(a, b) == IF a <= b THEN a ELSE b

\* a < b on &str, from position i on, the bytes before it being equal
RECURSIVE StrLessFrom(_, _, _)
StrLessFrom(a, b, i) ==
    IF i > Len(b) THEN FALSE
    ELSE IF i > Len(a) THEN TRUE
    ELSE IF a[i] = b[i] THEN StrLessFrom(a, b, i + 1)
    ELSE Byte[a[i]] < Byte[b[i]]

\* a < b on &str: the order of the bytes
StrLess(a, b) == StrLessFrom(a, b, 1)

\* s[from..]
Tail_(s, from) == SubSeq(s, from, Len(s))

(***************************************************************************)
(* parsers.rs: the flag table and the parser combinators.                  *)
(***************************************************************************)
F(key, count, match, equal, type) ==
    [key |-> key, count |-> count, match_ |-> match, equal |-> equal, type_ |-> type]

\* the table of tool_gcc.rs, in the order it is written
FLAG_DEFINITION ==
    <<
      F(<<"-", "x">>, 1, "Exact", FALSE, "KindOfOutput"),
      F(<<"-", "c">>, 0, "Exact", FALSE, "KindOfOutputNoLinking"),
      F(<<"-", "S">>, 0, "Exact", FALSE, "KindOfOutputNoLinking"),
      F(<<"-", "E">>, 0, "Exact", FALSE, "KindOfOutputNoLinking"),
      F(<<"-", "o">>, 1, "Exact", FALSE, "KindOfOutputOutput"),
      F(<<"-", "d", "u", "m", "p", "b", "a", "s", "e">>, 1, "Exact", FALSE, "KindOfOutput"),
      F(<<"-", "d", "u", "m", "p", "b", "a", "s", "e", "-", "e", "x", "t">>, 1, "Exact", FALSE, "KindOfOutput"),
      F(<<"-", "d", "u", "m", "p", "d", "i", "r">>, 1, "Exact", FALSE, "KindOfOutput"),
      F(<<"-", "v">>, 0, "Exact", FALSE, "KindOfOutput"),
      F(<<"-", "#", "#", "#">>, 0, "Exact", FALSE, "KindOfOutput"),
      F(<<"-", "-", "h", "e", "l", "p">>, 0, "Both", TRUE, "KindOfOutputInfo"),
      F(<<"-", "-", "t", "a", "r", "g", "e", "t", "-", "h", "e", "l", "p">>, 0, "Exact", FALSE, "KindOfOutputInfo"),
      F(<<"-", "-", "v", "e", "r", "s", "i", "o", "n">>, 0, "Exact", FALSE, "KindOfOutputInfo"),
      F(<<"-", "p", "a", "s", "s", "-", "e", "x", "i", "t", "-", "c", "o", "d", "e", "s">>, 0, "Exact", FALSE, "KindOfOutput"),
      F(<<"-", "p", "i", "p", "e">>, 0, "Exact", FALSE, "KindOfOutput"),
      F(<<"-", "s", "p", "e", "c", "s">>, 0, "Partial", TRUE, "KindOfOutput"),
      F(<<"-", "w", "r", "a", "p", "p", "e", "r">>, 1, "Exact", FALSE, "KindOfOutput"),
      F(<<"-", "f", "f", "i", "l", "e", "-", "p", "r", "e", "f", "i", "x", "-", "m", "a", "p">>, 0, "Partial", TRUE, "KindOfOutput"),
      F(<<"-", "f", "p", "l", "u", "g", "i", "n">>, 0, "Partial", TRUE, "KindOfOutput"),
      F(<<"@">>, 0, "Partial", FALSE, "KindOfOutput"),
      F(<<"-", "A">>, 1, "Both", FALSE, "Preprocessor"),
      F(<<"-", "D">>, 1, "Both", FALSE, "Preprocessor"),
      F(<<"-", "U">>, 1, "Both", FALSE, "Preprocessor"),
      F(<<"-", "i", "n", "c", "l", "u", "d", "e">>, 1, "Exact", FALSE, "Preprocessor"),
      F(<<"-", "i", "m", "a", "c", "r", "o", "s">>, 1, "Exact", FALSE, "Preprocessor"),
      F(<<"-", "u", "n", "d", "e", "f">>, 0, "Exact", FALSE, "Preprocessor"),
      F(<<"-", "p", "t", "h", "r", "e", "a", "d">>, 0, "Exact", FALSE, "Preprocessor"),
      F(<<"-", "M">>, 0, "Exact", FALSE, "PreprocessorMake"),
      F(<<"-", "M", "M">>, 0, "Exact", FALSE, "PreprocessorMake"),
      F(<<"-", "M", "G">>, 0, "Exact", FALSE, "PreprocessorMake"),
      F(<<"-", "M", "P">>, 0, "Exact", FALSE, "PreprocessorMake"),
      F(<<"-", "M", "D">>, 0, "Exact", FALSE, "PreprocessorMake"),
      F(<<"-", "M", "M", "D">>, 0, "Exact", FALSE, "PreprocessorMake"),
      F(<<"-", "M", "F">>, 1, "Exact", FALSE, "PreprocessorMake"),
      F(<<"-", "M", "T">>, 1, "Exact", FALSE, "PreprocessorMake"),
      F(<<"-", "M", "Q">>, 1, "Exact", FALSE, "PreprocessorMake"),
      F(<<"-", "C">>, 0, "Exact", FALSE, "Preprocessor"),
      F(<<"-", "C", "C">>, 0, "Exact", FALSE, "Preprocessor"),
      F(<<"-", "P">>, 0, "Exact", FALSE, "Preprocessor"),
      F(<<"-", "t", "r", "a", "d", "i", "t", "i", "o", "n", "a", "l">>, 0, "Both", FALSE, "Preprocessor"),
      F(<<"-", "t", "r", "i", "g", "r", "a", "p", "h", "s">>, 0, "Exact", FALSE, "Preprocessor"),
      F(<<"-", "r", "e", "m", "a", "p">>, 0, "Exact", FALSE, "Preprocessor"),
      F(<<"-", "H">>, 0, "Exact", FALSE, "Preprocessor"),
      F(<<"-", "X", "p", "r", "e", "p", "r", "o", "c", "e", "s", "s", "o", "r">>, 1, "Exact", FALSE, "Preprocessor"),
      F(<<"-", "W", "p", ",">>, 0, "Partial", FALSE, "Preprocessor"),
      F(<<"-", "I">>, 1, "Both", FALSE, "DirectorySearch"),
      F(<<"-", "i", "p", "l", "u", "g", "i", "n", "d", "i", "r">>, 0, "Partial", TRUE, "DirectorySearch"),
      F(<<"-", "i", "q", "u", "o", "t", "e">>, 1, "Exact", FALSE, "DirectorySearch"),
      F(<<"-", "i", "s", "y", "s", "t", "e", "m">>, 1, "Exact", FALSE, "DirectorySearch"),
      F(<<"-", "i", "d", "i", "r", "a", "f", "t", "e", "r">>, 1, "Exact", FALSE, "DirectorySearch"),
      F(<<"-", "i", "p", "r", "e", "f", "i", "x">>, 1, "Exact", FALSE, "DirectorySearch"),
      F(<<"-", "i", "w", "i", "t", "h", "p", "r", "e", "f", "i", "x">>, 1, "Exact", FALSE, "DirectorySearch"),
      F(<<"-", "i", "w", "i", "t", "h", "p", "r", "e", "f", "i", "x", "b", "e", "f", "o", "r", "e">>, 1, "Exact", FALSE, "DirectorySearch"),
      F(<<"-", "i", "s", "y", "s", "r", "o", "o", "t">>, 1, "Exact", FALSE, "DirectorySearch"),
      F(<<"-", "i", "m", "u", "l", "t", "i", "l", "i", "b">>, 1, "Exact", FALSE, "DirectorySearch"),
      F(<<"-", "L">>, 1, "Both", FALSE, "DirectorySearchLinker"),
      F(<<"-", "B">>, 1, "Both", FALSE, "DirectorySearch"),
      F(<<"-", "-", "s", "y", "s", "r", "o", "o", "t">>, 1, "Both", TRUE, "DirectorySearch"),
      F(<<"-", "f", "l", "i", "n", "k", "e", "r", "-", "o", "u", "t", "p", "u", "t">>, 0, "Partial", TRUE, "Linker"),
      F(<<"-", "f", "u", "s", "e", "-", "l", "d">>, 0, "Partial", TRUE, "Linker"),
      F(<<"-", "l">>, 1, "Both", FALSE, "Linker"),
      F(<<"-", "n", "o", "s", "t", "a", "r", "t", "f", "i", "l", "e", "s">>, 0, "Exact", FALSE, "Linker"),
      F(<<"-", "n", "o", "d", "e", "f", "a", "u", "l", "t", "l", "i", "b", "s">>, 0, "Exact", FALSE, "Linker"),
      F(<<"-", "n", "o", "l", "i", "b", "c">>, 0, "Exact", FALSE, "Linker"),
      F(<<"-", "n", "o", "s", "t", "d", "l", "i", "b">>, 0, "Exact", FALSE, "Linker"),
      F(<<"-", "e">>, 1, "Exact", FALSE, "Linker"),
      F(<<"-", "e", "n", "t", "r", "y">>, 0, "Partial", TRUE, "Linker"),
      F(<<"-", "p", "i", "e">>, 0, "Exact", FALSE, "Linker"),
      F(<<"-", "n", "o", "-", "p", "i", "e">>, 0, "Exact", FALSE, "Linker"),
      F(<<"-", "s", "t", "a", "t", "i", "c", "-", "p", "i", "e">>, 0, "Exact", FALSE, "Linker"),
      F(<<"-", "r">>, 0, "Exact", FALSE, "Linker"),
      F(<<"-", "r", "d", "y", "n", "a", "m", "i", "c">>, 0, "Exact", FALSE, "Linker"),
      F(<<"-", "s">>, 0, "Exact", FALSE, "Linker"),
      F(<<"-", "s", "y", "m", "b", "o", "l", "i", "c">>, 0, "Exact", FALSE, "Linker"),
      F(<<"-", "s", "t", "a", "t", "i", "c">>, 0, "Both", FALSE, "Linker"),
      F(<<"-", "s", "h", "a", "r", "e", "d">>, 0, "Both", FALSE, "Linker"),
      F(<<"-", "T">>, 1, "Exact", FALSE, "Linker"),
      F(<<"-", "X", "l", "i", "n", "k", "e", "r">>, 1, "Exact", FALSE, "Linker"),
      F(<<"-", "W", "l", ",">>, 0, "Partial", FALSE, "Linker"),
      F(<<"-", "u">>, 1, "Exact", FALSE, "Linker"),
      F(<<"-", "z">>, 1, "Exact", FALSE, "Linker"),
      F(<<"-", "X", "a", "s", "s", "e", "m", "b", "l", "e", "r">>, 1, "Exact", FALSE, "Other"),
      F(<<"-", "W", "a", ",">>, 0, "Partial", FALSE, "Other"),
      F(<<"-", "a", "n", "s", "i">>, 0, "Exact", FALSE, "Other"),
      F(<<"-", "a", "u", "x", "-", "i", "n", "f", "o">>, 1, "Exact", FALSE, "Other"),
      F(<<"-", "s", "t", "d">>, 0, "Partial", TRUE, "Other"),
      F(<<"-", "O">>, 0, "Both", FALSE, "Other"),
      F(<<"-", "g">>, 0, "Both", FALSE, "Other"),
      F(<<"-", "f">>, 0, "Partial", FALSE, "Other"),
      F(<<"-", "m">>, 0, "Partial", FALSE, "Other"),
      F(<<"-", "p">>, 0, "Partial", FALSE, "Other"),
      F(<<"-", "W">>, 0, "Partial", FALSE, "Other"),
      F(<<"-", "n", "o">>, 0, "Partial", FALSE, "Other"),
      F(<<"-", "t", "n", "o">>, 0, "Partial", FALSE, "Other"),
      F(<<"-", "s", "a", "v", "e">>, 0, "Partial", FALSE, "Other"),
      F(<<"-", "d">>, 0, "Partial", FALSE, "Other"),
      F(<<"-", "E">>, 0, "Partial", FALSE, "Other"),
      F(<<"-", "Q">>, 0, "Partial", FALSE, "Other"),
      F(<<"-", "X">>, 0, "Partial", FALSE, "Other"),
      F(<<"-", "Y">>, 0, "Partial", FALSE, "Other"),
      F(<<"-", "-">>, 0, "Partial", FALSE, "Other")
    >>

\* FLAG_DEFINITION.iter().copied().collect() into a BTreeMap: one entry per
\* key, the last definition of a key winning, iterated in key order
LastDefinition(table, key) ==
    table[CHOOSE i \in 1..Len(table) :
        /\ table[i].key = key
        /\ \A j \in (i + 1)..Len(table) : table[j].key # key]

FlagKeys(table) == {table[i].key : i \in 1..Len(table)}

\* the place of a key in the iteration of the map
Rank(keys, key) == 1 + Cardinality({k \in keys : StrLess(k, key)})

RankOf(keys) == [k \in keys |-> Rank(keys, k)]

\* the entries of the map of table in the order of their keys, rank being
\* the places of the keys
InKeyOrder(table, keys, rank) ==
    [i \in 1..Cardinality(keys) |->
        LastDefinition(table, CHOOSE k \in keys : rank[k] = i)]

Collect(table, keys) == InKeyOrder(table, keys, RankOf(keys))

FLAG_DEFINITION_MAP == Collect(FLAG_DEFINITION, FlagKeys(FLAG_DEFINITION))

\* Instruction::count
count(instruction, exact_match) ==
    IF instruction.count > 0
    THEN IF exact_match THEN instruction.count ELSE instruction.count - 1
    ELSE instruction.count

exact_match_allowed(instruction) == instruction.match_ \in {"Exact", "Both"}
partial_match_allowed(instruction) == instruction.match_ \in {"Partial", "Both"}

NoMatch == [found |-> FALSE, count |-> 0, type_ |-> "None"]
Matched(n, type) == [found |-> TRUE, count |-> n, type_ |-> type]

\* FlagParser::check_equal
check_equal(key, candidate) ==
    IF key = <<>> THEN NoMatch
    ELSE IF candidate.key # key THEN NoMatch
    ELSE IF ~exact_match_allowed(candidate) THEN NoMatch
    ELSE Matched(count(candidate, TRUE), candidate.type_)

\* FlagParser::check_partial: the two strings are compared on the length of
\* the shorter one
check_partial(key, candidate) ==
    IF key = <<>> THEN NoMatch
    ELSE IF ~partial_match_allowed(candidate) THEN NoMatch
    ELSE LET length == Min(Len(key), Len(candidate.key))
         IN  IF SubSeq(key, 1, length) # SubSeq(candidate.key, 1, length)
             THEN NoMatch
             ELSE Matched(count(candidate, FALSE), candidate.type_)

\* skip_while(|(k, _)| k < key) on the map, which iterates in key order: the
\* entries skipped are those whose key is less than key; the position of the
\* first entry left, Len(flags) + 1 when there is none
SkipWhile(flags, key) ==
    1 + Cardinality({i \in 1..Len(flags) : StrLess(flags[i].key, key)})

\* lookup, from the candidate at position c on
lookup_from(flags, key, c) ==
    LET last == IF Len(flags) > 0 THEN check_partial(key, flags[Len(flags)])
                ELSE NoMatch
    IN  IF c <= Len(flags)
        THEN IF check_equal(key, flags[c]).found
             THEN check_equal(key, flags[c])
             ELSE IF check_partial(key, flags[c]).found
             THEN check_partial(key, flags[c])
             ELSE IF c # 1 /\ check_partial(key, flags[c - 1]).found
             THEN check_partial(key, flags[c - 1])
             ELSE last
        ELSE last

\* FlagParser::lookup over the map in key order
lookup(flags, key) == lookup_from(flags, key, SkipWhile(flags, key))

\* the entry lookup answered with, from the candidate at position c on: its
\* place in the map, 0 when lookup returns None
matched_candidate(flags, key, c) ==
    LET last == IF Len(flags) > 0 /\ check_partial(key, flags[Len(flags)]).found
                THEN Len(flags) ELSE 0
    IN  IF c <= Len(flags)
        THEN IF check_equal(key, flags[c]).found THEN c
             ELSE IF check_partial(key, flags[c]).found THEN c
             ELSE IF c # 1 /\ check_partial(key, flags[c - 1]).found THEN c - 1
             ELSE last
        ELSE last

ParseErr(input) == [status |-> "Err", flag |-> <<>>, remainder |-> input]
ParsePanic(input) == [status |-> "panic", flag |-> <<>>, remainder |-> input]

\* parse_result: input.split_at(count) panics when count > input.len()
parse_result(input, n, type) ==
    IF n > Len(input) THEN ParsePanic(input)
    ELSE [status |-> "Ok",
          flag |-> [arguments |-> SubSeq(input, 1, n), type_ |-> type],
          remainder |-> Tail_(input, n + 1)]

\* the command-line tokens the executions are made of
Tokens ==
    {<<"-", "-", "v", "e", "r", "s", "i", "o", "n">>,
     <<"-", "-", "h", "e", "l", "p">>,
     <<"-", "c">>,
     <<"-", "S">>,
     <<"-", "E">>,
     <<"-", "M">>,
     <<"-", "M", "M">>,
     <<"-", "M", "D">>,
     <<"-", "o">>,
     <<"-", "L", ".">>,
     <<"-", "l", "m">>,
     <<"-", "D", "X">>,
     <<"a", ".", "c">>,
     <<"a", ".", "o">>}

\* the tokens of the executions given to the Build
BuildTokens ==
    {<<"c", "c">>, <<"-", "o">>, <<"-", "-", "v", "e", "r", "s", "i", "o", "n">>, <<"a", ".", "c">>, <<"C", ":", "\\", "s", "\\", "b", ".", "c">>}

\* FlagParser::new(&FLAG_DEFINITION_MAP): the lookup of the parser of
\* tool_gcc.rs, evaluated once for each token of the executions
TokenLookup == [key \in Tokens \cup BuildTokens |-> lookup(FLAG_DEFINITION_MAP, key)]

\* the lookup of a token of the executions
FlagParser_lookup(key) == TokenLookup[key]

\* <FlagParser as Parser>::parse
FlagParser_parse(input) ==
    IF input = <<>> THEN ParseErr(input)
    ELSE LET found == FlagParser_lookup(input[1])
         IN  IF found.found THEN parse_result(input, found.count + 1, found.type_)
             ELSE ParseErr(input)

\* SourceMatcher::EXTENSIONS
EXTENSIONS ==
    {
     <<".", "h">>, <<".", "h", "h">>, <<".", "H">>, <<".", "h", "p">>,
     <<".", "h", "x", "x">>, <<".", "h", "p", "p">>, <<".", "H", "P", "P">>,
     <<".", "h", "+", "+">>, <<".", "t", "c", "c">>, <<".", "c">>,
     <<".", "C">>, <<".", "c", "c">>, <<".", "C", "C">>,
     <<".", "c", "+", "+">>, <<".", "C", "+", "+">>, <<".", "c", "x", "x">>,
     <<".", "c", "p", "p">>, <<".", "c", "p">>, <<".", "c", "u">>,
     <<".", "m">>, <<".", "m", "i">>, <<".", "m", "m">>, <<".", "M">>,
     <<".", "m", "i", "i">>, <<".", "i">>, <<".", "i", "i">>, <<".", "s">>,
     <<".", "S">>, <<".", "s", "x">>, <<".", "a", "s", "m">>, <<".", "f">>,
     <<".", "f", "o", "r">>, <<".", "f", "t", "n">>, <<".", "F">>,
     <<".", "F", "O", "R">>, <<".", "f", "p", "p">>, <<".", "F", "P", "P">>,
     <<".", "F", "T", "N">>, <<".", "f", "9", "0">>, <<".", "f", "9", "5">>,
     <<".", "f", "0", "3">>, <<".", "f", "0", "8">>, <<".", "F", "9", "0">>,
     <<".", "F", "9", "5">>, <<".", "F", "0", "3">>, <<".", "F", "0", "8">>,
     <<".", "g", "o">>, <<".", "b", "r", "i", "g">>, <<".", "d">>,
     <<".", "d", "i">>, <<".", "d", "d">>, <<".", "a", "d", "s">>,
     <<".", "a", "b", "d">>
    }

\* SourceMatcher::take_extension: from the last '.', or the whole name
take_extension(file) ==
    LET dots == {i \in 1..Len(file) : file[i] = "."}
    IN  IF dots # {} THEN Tail_(file, CHOOSE i \in dots : \A j \in dots : j <= i)
        ELSE file

\* <SourceMatcher as Parser>::parse
SourceMatcher_parse(input) ==
    IF take_extension(input[1]) \in EXTENSIONS
    THEN parse_result(input, 1, "Source")
    ELSE ParseErr(input)

\* <EverythingElseFlagMatcher as Parser>::parse
EverythingElseFlagMatcher_parse(input) ==
    IF input[1] # <<>> THEN parse_result(input, 1, "LinkerObjectFile")
    ELSE ParseErr(input)

\* <OneOf as Parser>::parse with the three parsers of tool_gcc.rs: the first
\* parser that succeeds, tried in order
OneOf_parse(input) ==
    LET first == FlagParser_parse(input)
    IN  IF first.status # "Err" THEN first
        ELSE LET second == SourceMatcher_parse(input)
             IN  IF second.status # "Err" THEN second
                 ELSE EverythingElseFlagMatcher_parse(input)

\* <Repeat as FullParser>::parse
RECURSIVE Repeat_parse(_, _)
Repeat_parse(flags, it) ==
    IF it = <<>> THEN [status |-> "Ok", flags |-> flags, remainder |-> <<>>]
    ELSE LET r == OneOf_parse(it)
         IN  IF r.status = "Ok" THEN Repeat_parse(Append(flags, r.flag), r.remainder)
             ELSE [status |-> r.status, flags |-> <<>>, remainder |-> it]

\* parsers::parse
parse(execution) ==
    IF execution.arguments = <<>>
    THEN [status |-> "Err", flags |-> <<>>, remainder |-> <<>>]
    ELSE Repeat_parse(<<>>, Tail_(execution.arguments, 2))

(***************************************************************************)
(* tool_gcc.rs: the gcc-like recognizer.                                   *)
(***************************************************************************)
\* parse_flags
parse_flags(execution) == parse(execution)

\* std::env::split_paths on the host of the tool: ';' separates, '"' quotes
RECURSIVE SplitPaths(_, _, _)
SplitPaths(value, in_progress, in_quote) ==
    IF value = <<>> THEN <<in_progress>>
    ELSE IF value[1] = "\"" THEN SplitPaths(Tail(value), in_progress, ~in_quote)
    ELSE IF value[1] = ";" /\ ~in_quote
    THEN <<in_progress>> \o SplitPaths(Tail(value), <<>>, FALSE)
    ELSE SplitPaths(Tail(value), Append(in_progress, value[1]), in_quote)

split_paths(value) == SplitPaths(value, <<>>, FALSE)

RECURSIVE Inserter(_, _)
Inserter(paths, flag) ==
    IF paths = <<>> THEN <<>>
    ELSE LET directory == IF paths[1] = <<>> THEN <<".">> ELSE paths[1]
         IN  <<flag, directory>> \o Inserter(Tail(paths), flag)

FromVariable(environment, name, flag) ==
    IF name \in DOMAIN environment
    THEN Inserter(split_paths(environment[name]), flag)
    ELSE <<>>

\* flags_from_environment reading OBJC_INCLUDE_PATH first
flags_from_environment_SystemFirst(environment) ==
    FromVariable(environment, "OBJC_INCLUDE_PATH",
                 <<"-", "i", "s", "y", "s", "t", "e", "m">>)
        \o FromVariable(environment, "CPATH", <<"-", "I">>)
        \o FromVariable(environment, "C_INCLUDE_PATH", <<"-", "I">>)
        \o FromVariable(environment, "CPLUS_INCLUDE_PATH", <<"-", "I">>)

\* flags_from_environment
flags_from_environment(environment) ==
    FromVariable(environment, "CPATH", <<"-", "I">>)
        \o FromVariable(environment, "C_INCLUDE_PATH", <<"-", "I">>)
        \o FromVariable(environment, "CPLUS_INCLUDE_PATH", <<"-", "I">>)
        \o FromVariable(environment, "OBJC_INCLUDE_PATH",
                        <<"-", "i", "s", "y", "s", "t", "e", "m">>)

HasType(flags, type) == \E i \in 1..Len(flags) : flags[i].type_ = type

\* is_compiler_query without the check of the empty list
is_compiler_query_NoEmpty(flags) == HasType(flags, "KindOfOutputInfo")

\* is_compiler_query
is_compiler_query(flags) ==
    IF flags = <<>> THEN TRUE ELSE HasType(flags, "KindOfOutputInfo")

\* is_preprocessor
is_preprocessor(flags) ==
    \E i \in 1..Len(flags) :
        LET candidate == flags[i].arguments[1]
        IN  \/ flags[i].type_ = "KindOfOutputNoLinking" /\ candidate = <<"-", "E">>
            \/ /\ flags[i].type_ = "PreprocessorMake"
               /\ candidate \in {<<"-", "M">>, <<"-", "M", "M">>}

\* linking
linking(flags) == ~HasType(flags, "KindOfOutputNoLinking")

\* split keeping the first output
RECURSIVE split_FirstOutput(_)
split_FirstOutput(flags) ==
    IF flags = <<>> THEN [arguments |-> <<>>, sources |-> <<>>, output |-> <<>>]
    ELSE LET flag == flags[Len(flags)]
             rest == split_FirstOutput(SubSeq(flags, 1, Len(flags) - 1))
         IN  IF flag.type_ = "Source"
             THEN [rest EXCEPT !.sources = Append(@, flag.arguments[1])]
             ELSE IF flag.type_ = "KindOfOutputOutput"
             THEN IF rest.output # <<>> THEN rest
                  ELSE [rest EXCEPT !.output = <<flag.arguments[Len(flag.arguments)]>>]
             ELSE IF flag.type_ \in {"Linker", "PreprocessorMake", "DirectorySearchLinker"}
             THEN rest
             ELSE [rest EXCEPT !.arguments = @ \o flag.arguments]

\* split: (arguments, sources, output); output is <<>> for None
RECURSIVE split(_)
split(flags) ==
    IF flags = <<>> THEN [arguments |-> <<>>, sources |-> <<>>, output |-> <<>>]
    ELSE LET flag == flags[Len(flags)]
             rest == split(SubSeq(flags, 1, Len(flags) - 1))
         IN  IF flag.type_ = "Source"
             THEN [rest EXCEPT !.sources = Append(@, flag.arguments[1])]
             ELSE IF flag.type_ = "KindOfOutputOutput"
             THEN [rest EXCEPT !.output = <<flag.arguments[Len(flag.arguments)]>>]
             ELSE IF flag.type_ \in {"Linker", "PreprocessorMake", "DirectorySearchLinker"}
             THEN rest
             ELSE [rest EXCEPT !.arguments = @ \o flag.arguments]

NoCompile ==
    [working_dir |-> <<>>, compiler |-> <<>>, flags |-> <<>>, sources |-> <<>>,
     output |-> <<>>]
Semantic(kind, compile) == [kind |-> kind, compile |-> compile]

\* compilation from the split on, without the check of the sources
compile_semantic_NoCheck(execution, flags, parts) ==
    Semantic("Compile",
        [working_dir |-> execution.working_dir,
         compiler |-> execution.executable,
         flags |-> (IF linking(flags) THEN <<(<<"-", "c">>)>> ELSE <<>>)
                       \o parts.arguments
                       \o flags_from_environment(execution.environment),
         sources |-> parts.sources,
         output |-> parts.output])

\* compilation, from the split on: the check of the sources, the -c of a
\* linking command and the flags of the environment
compile_semantic(execution, flags, parts) ==
    IF parts.sources = <<>> THEN Semantic("Err", NoCompile)
    ELSE Semantic("Compile",
             [working_dir |-> execution.working_dir,
              compiler |-> execution.executable,
              flags |-> (IF linking(flags) THEN <<(<<"-", "c">>)>> ELSE <<>>)
                            \o parts.arguments
                            \o flags_from_environment(execution.environment),
              sources |-> parts.sources,
              output |-> parts.output])

\* compilation, from the match on the result of parse_flags on
classify(execution, parsed) ==
    IF parsed.status # "Ok" THEN Semantic(parsed.status, NoCompile)
    ELSE IF is_compiler_query(parsed.flags) THEN Semantic("QueryCompiler", NoCompile)
    ELSE IF is_preprocessor(parsed.flags) THEN Semantic("Preprocess", NoCompile)
    ELSE compile_semantic(execution, parsed.flags, split(parsed.flags))

\* compilation: Ok(Some(QueryCompiler | Preprocess | Compile)), Err, or the
\* panic of the parser
compilation(execution) == classify(execution, parse_flags(execution))

(***************************************************************************)
(* std::path on Windows, resolver.rs, and the tools of semantic/tool.      *)
(***************************************************************************)
Max(S) == CHOOSE i \in S : \A j \in S : j <= i

is_separator(c) == c \in {"\\", "/"}
\* a path that begins with a drive, "C:"
has_prefix(path) == Len(path) >= 2 /\ path[2] = ":"
\* Path::has_root: a separator follows the prefix
has_root(path) ==
    LET body == IF has_prefix(path) THEN Tail_(path, 3) ELSE path
    IN  body # <<>> /\ is_separator(body[1])
\* Path::is_absolute: a prefix and a root
is_absolute(path) == has_prefix(path) /\ has_root(path)

\* the path without the separators that end it
trim_separators(path) ==
    SubSeq(path, 1, Max({i \in 1..Len(path) : ~is_separator(path[i])} \cup {0}))

\* Path::file_name: the last component, <<>> for None
file_name(path) ==
    LET body == trim_separators(IF has_prefix(path) THEN Tail_(path, 3) ELSE path)
        name == Tail_(body, 1 + Max({i \in 1..Len(body) : is_separator(body[i])} \cup {0}))
    IN  IF name = <<".", ".">> THEN <<>> ELSE name

\* Path::file_stem(..).unwrap_or(""): the file name up to its last '.', the
\* whole name when it has no '.' or only begins with one
file_stem(path) ==
    LET name == file_name(path)
        dot == Max({i \in 1..Len(name) : name[i] = "."} \cup {0})
    IN  IF dot <= 1 THEN name ELSE SubSeq(name, 1, dot - 1)

\* Path::join (PathBuf::push)
join(base, path) ==
    IF is_absolute(path) \/ has_prefix(path) THEN path
    ELSE IF has_root(path)
    THEN (IF has_prefix(base) THEN SubSeq(base, 1, 2) ELSE <<>>) \o path
    ELSE IF base = <<>> \/ is_separator(base[Len(base)])
                        \/ (has_prefix(base) /\ Len(base) = 2)
    THEN base \o path
    ELSE base \o <<"\\">> \o path

\* io::Result<PathBuf>
NotFound == [ok |-> FALSE, path |-> <<>>]
Found(path) == [ok |-> TRUE, path |-> path]

\* fs::canonicalize: the path taken from the current directory of the
\* process, an error unless it exists, in the verbatim form \\?\C:\...
canonicalize(path, current_directory, files) ==
    LET absolute == trim_separators(IF is_absolute(path) THEN path
                                    ELSE join(current_directory, path))
    IN  IF path # <<>> /\ absolute \in files
        THEN Found(<<"\\", "\\", "?", "\\">> \o absolute)
        ELSE NotFound

\* DefaultResolver::from_current_directory
from_current_directory(file, current_directory, files) ==
    canonicalize(file, current_directory, files)

\* the loop of from_search_path over the entries of the search path
RECURSIVE search(_, _, _, _)
search(paths, file, current_directory, files) ==
    IF paths = <<>> THEN NotFound
    ELSE IF paths[1] = <<>> THEN search(Tail(paths), file, current_directory, files)
    ELSE LET result == from_current_directory(join(paths[1], file),
                                              current_directory, files)
         IN  IF result.ok THEN result
             ELSE search(Tail(paths), file, current_directory, files)

\* DefaultResolver::from_search_path: a file with any component at all is
\* taken from the current directory
from_search_path(file, search_path, current_directory, files) ==
    IF file # <<>> THEN from_current_directory(file, current_directory, files)
    ELSE search(split_paths(search_path), file, current_directory, files)

\* Ok(None) of Tool::recognize
NotApplicable == Semantic("NotApplicable", NoCompile)

IsDigits(s) == s # <<>> /\ \A i \in 1..Len(s) : s[i] \in
    {"0", "1", "2", "3", "4", "5", "6", "7", "8", "9"}

\* the pieces of s between the characters c
Pieces(s, c) ==
    LET at == <<0>> \o SelectSeq([i \in 1..Len(s) |-> IF s[i] = c THEN i ELSE 0],
                                 LAMBDA i : i # 0) \o <<Len(s) + 1>>
    IN  [k \in 1..(Len(at) - 1) |-> SubSeq(s, at[k] + 1, at[k + 1] - 1)]

\* (-?\d+(\.\d+){0,2})?
IsVersion(s) ==
    \/ s = <<>>
    \/ LET numbers == Pieces(IF s[1] = "-" THEN Tail(s) ELSE s, ".")
       IN  Len(numbers) \in 1..3 /\ \A k \in 1..Len(numbers) : IsDigits(numbers[k])

\* ([^-]*-)*core(-?\d+(\.\d+){0,2})? with core one of cores
IsFamily(stem, cores) ==
    \E i \in 0..Len(stem), j \in 0..Len(stem) :
        /\ i <= j
        /\ i = 0 \/ stem[i] = "-"
        /\ SubSeq(stem, i + 1, j) \in cores
        /\ IsVersion(Tail_(stem, j + 1))

\* ToolGcc::recognize_program: the regex
\* ^(cc|c\+\+|cxx|CC|(([^-]*-)*([mg](cc|\+\+)|[g]?fortran)(-?\d+(\.\d+){0,2})?))$
ToolGcc_recognize_program(program) ==
    LET stem == file_stem(program)
    IN  \/ stem \in {<<"c", "c">>, <<"c", "+", "+">>, <<"c", "x", "x">>, <<"C", "C">>}
        \/ IsFamily(stem, {<<"m", "c", "c">>, <<"g", "c", "c">>, <<"m", "+", "+">>, <<"g", "+", "+">>, <<"g", "f", "o", "r", "t", "r", "a", "n">>, <<"f", "o", "r", "t", "r", "a", "n">>})

\* ToolClang::recognize_program: the stem is of the clang family, the
\* pattern being the one of ToolGcc with clang and clang++ as the names
ToolClang_recognize_program(program) ==
    IsFamily(file_stem(program), {<<"c", "l", "a", "n", "g">>, <<"c", "l", "a", "n", "g", "+", "+">>})

\* ToolCuda::recognize_program: the regex ^(nvcc)$
ToolCuda_recognize_program(program) == file_stem(program) = <<"n", "v", "c", "c">>

is_ccache_call(program) == file_stem(program) = <<"c", "c", "a", "c", "h", "e">>
looks_like_ccache_parameter(candidate) == candidate = <<>> \/ candidate[1] = "-"
is_ccache_query(arguments) ==
    Len(arguments) <= 1 \/ looks_like_ccache_parameter(arguments[2])

is_distcc_call(program) == file_stem(program) = <<"d", "i", "s", "t", "c", "c">>
looks_like_distcc_parameter(candidate) ==
    \/ candidate = <<>>
    \/ candidate \in {<<"-", "-", "h", "e", "l", "p">>, <<"-", "-", "v", "e", "r", "s", "i", "o", "n">>, <<"-", "-", "s", "h", "o", "w", "-", "h", "o", "s", "t", "s">>, <<"-", "-", "s", "c", "a", "n", "-", "i", "n", "c", "l", "u", "d", "e", "s">>,
                      <<"-", "j">>, <<"-", "-", "s", "h", "o", "w", "-", "p", "r", "i", "n", "c", "i", "p", "a", "l">>}
is_distcc_query(arguments) ==
    Len(arguments) <= 1 \/ looks_like_distcc_parameter(arguments[2])

\* remove_wrapper_with_resolver without the search of PATH
remove_wrapper_with_resolver_Raw(execution, current_directory, files) ==
    [execution EXCEPT !.arguments = Tail(@), !.executable = execution.arguments[2]]

\* remove_wrapper_with_resolver, the resolver being the DefaultResolver of
\* remove_wrapper; the fallback unwraps arguments.first() of the copy
remove_wrapper_with_resolver(execution, current_directory, files) ==
    LET environment == execution.environment
        candidate ==
            IF "PATH" \in DOMAIN environment /\ Len(execution.arguments) >= 2
            THEN from_search_path(execution.arguments[2], environment["PATH"],
                                  current_directory, files)
            ELSE NotFound
    IN  IF candidate.ok
        THEN [execution EXCEPT !.arguments = Tail(@), !.executable = candidate.path]
        ELSE [execution EXCEPT !.arguments = Tail(@),
                               !.executable = execution.arguments[2]]

\* remove_wrapper
remove_wrapper(execution, current_directory, files) ==
    remove_wrapper_with_resolver(execution, current_directory, files)

\* <ToolWrapper as Tool>::recognize: a query of ccache or of distcc, the
\* compilation of the unwrapped execution, or Ok(None)
ToolWrapper_recognize(execution, current_directory, files) ==
    IF ~is_ccache_call(execution.executable) /\ ~is_distcc_call(execution.executable)
    THEN NotApplicable
    ELSE IF IF is_ccache_call(execution.executable)
            THEN is_ccache_query(execution.arguments)
            ELSE is_distcc_query(execution.arguments)
    THEN Semantic("QueryCompiler", NoCompile)
    ELSE compilation(remove_wrapper(execution, current_directory, files))

\* ToolExtendingWrapper::recognize_program
ToolExtendingWrapper_recognize_program(self, program) ==
    self.compiler_to_recognize.executable = program

\* configuration::CompilerWrapper::default()
NoCompilerWrapper == [executable |-> <<>>, additional_flags |-> <<>>]
\* a Box<dyn Tool>
Tool(type, compiler_to_recognize) ==
    [type |-> type, compiler_to_recognize |-> compiler_to_recognize]

\* GccLike::recognize_program, by the type of the tool
recognize_program(self, program) ==
    CASE self.type = "ToolGcc" -> ToolGcc_recognize_program(program)
      [] self.type = "ToolClang" -> ToolClang_recognize_program(program)
      [] self.type = "ToolCuda" -> ToolCuda_recognize_program(program)
      [] self.type = "ToolExtendingWrapper" ->
             ToolExtendingWrapper_recognize_program(self, program)

\* GccLike::recognize_execution
recognize_execution(self, execution) ==
    IF recognize_program(self, execution.executable)
    THEN compilation(execution)
    ELSE NotApplicable

\* what <ToolExtendingWrapper as Tool>::recognize does to the result of
\* recognize_execution: the additional flags after the flags of a Compile;
\* the other GccLike tools return the result as it is
append_additional_flags(self, semantic) ==
    IF self.type = "ToolExtendingWrapper" /\ semantic.kind = "Compile"
    THEN [semantic EXCEPT !.compile.flags =
                              @ \o self.compiler_to_recognize.additional_flags]
    ELSE semantic

\* tool.recognize(execution): ToolWrapper::recognize for the ToolWrapper,
\* and for the GccLike tools (ToolGcc, ToolClang, ToolCuda,
\* ToolExtendingWrapper) recognize_execution and what recognize adds to it
Tool_recognize(tool, execution, current_directory, files) ==
    IF tool.type = "ToolWrapper"
    THEN ToolWrapper_recognize(execution, current_directory, files)
    ELSE append_additional_flags(tool, recognize_execution(tool, execution))

recognized_ok(result) == result.kind \in {"QueryCompiler", "Preprocess", "Compile"}
recognized_with_error(result) == result.kind = "Err"
not_recognized(result) == result.kind = "NotApplicable"

\* the outcome of ToolAny::recognize: the result, and how many of the tools
\* were asked, in the order of the list
Outcome(result, consulted) == [result |-> result, consulted |-> consulted]

\* ToolAny::recognize without the exclude list
RECURSIVE ToolAny_tools(_, _, _, _, _)
ToolAny_tools(self, i, execution, current_directory, files) ==
    IF i > Len(self.tools) THEN Outcome(Semantic("Err", NoCompile), Len(self.tools))
    ELSE LET result == Tool_recognize(self.tools[i], execution, current_directory, files)
         IN  IF not_recognized(result)
             THEN ToolAny_tools(self, i + 1, execution, current_directory, files)
             ELSE Outcome(result, i)

\* ToolAny::recognize with the exclude list looked at after the tools
ToolAny_recognize_ExcludeLast(self, execution, current_directory, files) ==
    LET outcome == ToolAny_tools(self, 1, execution, current_directory, files)
    IN  IF \E i \in 1..Len(self.to_exclude) : self.to_exclude[i] = execution.executable
        THEN Outcome(Semantic("Err", NoCompile), outcome.consulted)
        ELSE outcome

\* <ToolAny as Tool>::recognize; the panic of a tool ends the loop as well
ToolAny_recognize(self, execution, current_directory, files) ==
    IF \E i \in 1..Len(self.to_exclude) : self.to_exclude[i] = execution.executable
    THEN Outcome(Semantic("Err", NoCompile), 0)
    ELSE ToolAny_tools(self, 1, execution, current_directory, files)

\* Build::new: the tools, and ToolAny::new(tools, cfg.compilers_to_exclude)
Build_new(cfg) ==
    [tools |-> <<Tool("ToolGcc", NoCompilerWrapper),
                 Tool("ToolClang", NoCompilerWrapper),
                 Tool("ToolWrapper", NoCompilerWrapper),
                 Tool("ToolCuda", NoCompilerWrapper)>>
               \o [i \in 1..Len(cfg.compilers_to_recognize) |->
                      Tool("ToolExtendingWrapper", cfg.compilers_to_recognize[i])],
     to_exclude |-> cfg.compilers_to_exclude]

\* Build::recognize
Build_recognize(self, execution, current_directory, files) ==
    ToolAny_recognize(self, execution, current_directory, files)

\* the abspath of into_entries
abspath(compile, path) ==
    IF is_absolute(path) THEN path ELSE join(compile.working_dir, path)

\* the Entry of into_entries for one source
Entry(compile, source) ==
    [file |-> abspath(compile, source),
     directory |-> compile.working_dir,
     output |-> [i \in 1..Len(compile.output) |-> abspath(compile, compile.output[i])],
     arguments |-> <<compile.compiler>> \o compile.flags
                       \o (IF compile.output # <<>>
                           THEN <<(<<"-", "o">>), compile.output[1]>> ELSE <<>>)
                       \o <<source>>]

\* into_entries with the output as it was given
into_entries_RawOutput(self) ==
    IF self.kind = "Compile"
    THEN <<[i \in 1..Len(self.compile.sources) |->
               [Entry(self.compile, self.compile.sources[i])
                   EXCEPT !.output = self.compile.output]]>>
    ELSE <<>>

\* Semantic::into_entries: <<entries>> for Some(entries), <<>> for None
into_entries(self) ==
    IF self.kind = "Compile"
    THEN <<[i \in 1..Len(self.compile.sources) |->
               Entry(self.compile, self.compile.sources[i])]>>
    ELSE <<>>

(***************************************************************************)
(* util: the quoting of an argument and the splitter of the system.         *)
(***************************************************************************)
Copies(ch, n) == [i \in 1..n |-> ch]

\* char::is_whitespace, on the characters of the model
is_whitespace(c) == c \in {" ", "\t", "\n"}

\* the number of '\\' that argument has from position i on
Backslashes(argument, i) ==
    Cardinality({j \in i..Len(argument) : \A k \in i..j : argument[k] = "\\"})

\* the loop of quote_argument from position i on: what it appends to result
RECURSIVE QuoteFrom(_, _)
QuoteFrom(argument, i) ==
    LET number_backslashes == Backslashes(argument, i)
        next == i + number_backslashes
    IN  IF next > Len(argument) THEN Copies("\\", number_backslashes * 2)
        ELSE IF argument[next] = "\""
        THEN Copies("\\", number_backslashes * 2 + 1) \o <<"\"">>
                 \o QuoteFrom(argument, next + 1)
        ELSE Copies("\\", number_backslashes) \o <<argument[next]>>
                 \o QuoteFrom(argument, next + 1)

\* quote_argument
quote_argument(argument, force) ==
    IF /\ ~force
       /\ argument # <<>>
       /\ \A i \in 1..Len(argument) : ~(is_whitespace(argument[i]) \/ argument[i] = "\"")
    THEN argument
    ELSE <<"\"">> \o QuoteFrom(argument, 1) \o <<"\"">>

\* CommandLineToArgvW of the system, which command_line_to_argv calls.  The
\* path of the program itself is what it gives for an empty command line.
ModuleFileName == <<"w", "i", "n", "b", "e", "a", "r", ".", "e", "x", "e">>

IsBlank(c) == c \in {" ", "\t"}

\* s without the blanks it begins with
SkipBlanks(s) ==
    Tail_(s, 1 + Cardinality({j \in 1..Len(s) : \A k \in 1..j : IsBlank(s[k])}))

\* the quotes that follow a quote: every third one in a row is copied
RECURSIVE ConsecutiveQuotes(_, _, _)
ConsecutiveQuotes(s, d, qcount) ==
    IF s # <<>> /\ s[1] = "\""
    THEN IF qcount + 1 = 3
         THEN ConsecutiveQuotes(Tail(s), Append(d, "\""), 0)
         ELSE ConsecutiveQuotes(Tail(s), d, qcount + 1)
    ELSE [s |-> s, d |-> d, qcount |-> IF qcount = 2 THEN 0 ELSE qcount]

\* the arguments after the first: s is the text left, d the argument being
\* copied, bcount the backslashes just copied, qcount 1 inside quotes
RECURSIVE SplitArguments(_, _, _, _, _)
SplitArguments(s, d, bcount, qcount, argv) ==
    IF s = <<>> THEN Append(argv, d)
    ELSE IF IsBlank(s[1]) /\ qcount = 0
    THEN IF SkipBlanks(s) = <<>> THEN Append(argv, d)
         ELSE SplitArguments(SkipBlanks(s), <<>>, 0, 0, Append(argv, d))
    ELSE IF s[1] = "\\"
    THEN SplitArguments(Tail(s), Append(d, "\\"), bcount + 1, qcount, argv)
    ELSE IF s[1] = "\""
    THEN LET kept == SubSeq(d, 1, Len(d) - bcount) \o Copies("\\", bcount \div 2)
             after == IF bcount % 2 = 0
                      THEN ConsecutiveQuotes(Tail(s), kept, qcount + 1)
                      ELSE ConsecutiveQuotes(Tail(s), Append(kept, "\""), qcount)
         IN  SplitArguments(after.s, after.d, 0, after.qcount, argv)
    ELSE SplitArguments(Tail(s), Append(d, s[1]), 0, qcount, argv)

\* the first argument, the path of the program: it ends at the next quote
\* when it begins with one, at the next blank when it does not, and
\* backslashes are not special in it
CommandLineToArgvW(command_line) ==
    IF command_line = <<>> THEN <<ModuleFileName>>
    ELSE LET quoted == command_line[1] = "\""
             body == IF quoted THEN Tail(command_line) ELSE command_line
             ends == {j \in 1..Len(body) :
                         IF quoted THEN body[j] = "\"" ELSE IsBlank(body[j])}
             end == IF ends = {} THEN Len(body) + 1
                    ELSE CHOOSE j \in ends : \A k \in ends : j <= k
             rest == SkipBlanks(Tail_(body, end + 1))
         IN  IF rest = <<>> THEN <<SubSeq(body, 1, end - 1)>>
             ELSE SplitArguments(rest, <<>>, 0, 0, <<SubSeq(body, 1, end - 1)>>)

\* command_line_to_argv
command_line_to_argv(command_line) == CommandLineToArgvW(command_line)

(***************************************************************************)
(* output.rs: the compilation database.                                     *)
(***************************************************************************)
\* the text of the pieces joined with the separator between them
RECURSIVE JoinWith(_, _)
JoinWith(pieces, separator) ==
    IF pieces = <<>> THEN <<>>
    ELSE IF Len(pieces) = 1 THEN pieces[1]
    ELSE pieces[1] \o separator \o JoinWith(Tail(pieces), separator)

Rev(s) == [i \in 1..Len(s) |-> s[Len(s) + 1 - i]]

\* SerializableArguments::into_command_line on Arguments
into_command_line(arguments) ==
    JoinWith([i \in 1..Len(arguments) |-> quote_argument(arguments[i], FALSE)], <<" ">>)

\* a field of a JSON object: <<>> when the key is absent, <<value>> when present
Absent == <<>>
Present(value) == <<value>>

\* SerializableEntry as serde writes and reads it: the keys file, directory,
\* output, and arguments or command
SerializableEntry(file, directory, output, arguments, command) ==
    [file |-> file, directory |-> directory, output |-> output,
     arguments |-> arguments, command |-> command]

\* the closure of to_json: From<&Entry> for SerializableEntry, then the format
Serialize(format, entry) ==
    SerializableEntry(
        Present(entry.file),
        Present(entry.directory),
        IF format.drop_output_field THEN Absent ELSE entry.output,
        IF format.command_as_array THEN Present(entry.arguments) ELSE Absent,
        IF format.command_as_array THEN Absent
        ELSE Present(into_command_line(entry.arguments)))

\* Path::components on Windows: the prefix, the root, then the names, the
\* empty ones and the "." that is not the first left out
components(path) ==
    LET prefix == IF has_prefix(path) THEN <<SubSeq(path, 1, 2)>> ELSE <<>>
        body == IF has_prefix(path) THEN Tail_(path, 3) ELSE path
        root == IF has_root(path) THEN <<(<<"\\">>)>> ELSE <<>>
        names == Pieces([i \in 1..Len(body) |->
                            IF is_separator(body[i]) THEN "\\" ELSE body[i]], "\\")
        kept == {k \in 1..Len(names) :
                    /\ names[k] # <<>>
                    /\ names[k] = <<".">> => (k = 1 /\ prefix = <<>>)}
    IN  prefix \o root \o
        [n \in 1..Cardinality(kept) |->
            names[CHOOSE k \in kept : Cardinality({j \in kept : j <= k}) = n]]

\* ContentFilter::contains: zip stops at the end of the shorter of the two
contains(root, file) ==
    \E r \in 1..Len(root) :
        LET directory == components(root[r])
            parts == components(file)
        IN  \A k \in 1..Min(Len(directory), Len(parts)) : directory[k] = parts[k]

\* <ContentFilter as Filter>::apply; exists are the paths that exist
ContentFilter_apply(config, entry, exists) ==
    IF ~config.include_only_existing_source THEN TRUE
    ELSE LET include == config.paths_to_include
             to_include == include = <<>> \/ contains(include, entry.file)
             exclude == config.paths_to_exclude
             to_exclude == exclude # <<>> /\ contains(exclude, entry.file)
         IN  entry.file \in exists /\ to_include /\ ~to_exclude

\* DuplicateFilter::hash that counts the compiler name in
DuplicateFilter_hash_WithCompiler(entry) ==
    [args_hash |-> JoinWith(Rev(entry.arguments), <<",">>),
     file |-> Rev(entry.file)]

\* DuplicateFilter::hash.  The DefaultHasher is taken to give different
\* numbers to different strings, so the string hashed stands for its hash.
DuplicateFilter_hash(entry) ==
    [args_hash |-> JoinWith(Rev(Tail_(entry.arguments, 2)), <<",">>),
     file |-> Rev(entry.file)]

\* the two filters of to_json over the entries: hashes is the set of the
\* DuplicateFilter, which is asked only for what the ContentFilter let through
RECURSIVE Filtered(_, _, _, _)
Filtered(content, exists, list, hashes) ==
    IF list = <<>> THEN <<>>
    ELSE IF ~ContentFilter_apply(content, list[1], exists)
    THEN Filtered(content, exists, Tail(list), hashes)
    ELSE IF DuplicateFilter_hash(list[1]) \in hashes
    THEN Filtered(content, exists, Tail(list), hashes)
    ELSE <<list[1]>> \o Filtered(content, exists, Tail(list),
                                 hashes \cup {DuplicateFilter_hash(list[1])})

\* a JSON document: an array of objects, or anything else
Document(items) == [array |-> TRUE, items |-> items]
NotAnArray == [array |-> FALSE, items |-> <<>>]

\* CompilationDatabase::to_json: the document serde_json writes
to_json(self, list, exists) ==
    LET filtered == Filtered(self.content, exists, list, {})
    IN  Document([i \in 1..Len(filtered) |-> Serialize(self.format, filtered[i])])

\* serde reads a SerializableEntry from the object: file, directory and one of
\* arguments and command have to be there
Deserializes(item) ==
    /\ item.file # Absent
    /\ item.directory # Absent
    /\ item.arguments # Absent \/ item.command # Absent

\* SerializableArguments::into_arguments
into_arguments(item) ==
    IF item.arguments # Absent THEN item.arguments[1]
    ELSE command_line_to_argv(item.command[1])

\* TryFrom<SerializableEntry> for Entry
Entry_try_from(item) ==
    [file |-> item.file[1],
     directory |-> item.directory[1],
     output |-> item.output,
     arguments |-> into_arguments(item)]

\* the loop of from_json over the entries
IsValid(entry) ==
    /\ entry.file # <<>>
    /\ entry.directory # <<>>
    /\ entry.output # <<>> => entry.output[1] # <<>>
    /\ entry.arguments # <<>>

ReadErr == [ok |-> FALSE, value |-> <<>>]
ReadOk(list) == [ok |-> TRUE, value |-> list]

\* from_json that leaves out the entries that are not valid
from_json_SkipsInvalid(document) ==
    IF ~document.array THEN ReadErr
    ELSE IF \E i \in 1..Len(document.items) : ~Deserializes(document.items[i])
    THEN ReadErr
    ELSE ReadOk(SelectSeq([i \in 1..Len(document.items) |->
                               Entry_try_from(document.items[i])], IsValid))

\* CompilationDatabase::from_json
from_json(document) ==
    IF ~document.array THEN ReadErr
    ELSE IF \E i \in 1..Len(document.items) : ~Deserializes(document.items[i])
    THEN ReadErr
    ELSE LET list == [i \in 1..Len(document.items) |->
                         Entry_try_from(document.items[i])]
         IN  IF \E i \in 1..Len(list) : ~IsValid(list[i]) THEN ReadErr
             ELSE ReadOk(list)

(***************************************************************************)
(* State: one run of run_debug_loop(handler, timeout_ms), and one          *)
(* execution handed to the recognizer.                                     *)
(***************************************************************************)
VARIABLES
    pc,                  \* where run_debug_loop is
    handler,             \* "ExecutionLogger", or "Other": any other implementation
    logger,              \* the ExecutionLogger (self)
    debugged_processes,  \* the loop's set of attached pids
    debug_event,         \* the event the last wait returned
    response,            \* what handle_event returned for it
    continued,           \* ContinueDebugEvent calls made for debug_event
    detached,            \* DebugActiveProcessStop calls made, in order
    stderr,              \* lines printed with eprintln!
    os_error,            \* the call that failed inside the last handle_event
    nevents,             \* events received so far
    lifecycle,           \* history: the last CreateProcess/ExitProcess received per pid
    input,               \* the Execution given to the recognizer
    result,              \* what the recognizer returned for it
    configuration,       \* the Compilation the Build is made of
    current_directory,   \* the current directory of the tool
    files,               \* the paths that exist
    consulted,           \* how many tools ToolAny asked
    unwrapped,           \* the execution ToolWrapper made of the input
    new_entries,         \* what into_entries returned
    argument,            \* the argument given to FlagParser::lookup
    looked,              \* what the lookup returned for it
    database,            \* the CompilationDatabase (self)
    given,               \* the entries given to to_json
    document,            \* the JSON document written or given
    read_back            \* what from_json returned for the document

loopVars == <<pc, handler, logger, debugged_processes, debug_event, response,
              continued, detached, stderr, os_error, nevents, lifecycle>>
recognizerVars == <<input, result, configuration, current_directory, files,
                    consulted, unwrapped, new_entries>>
lookupVars == <<argument, looked>>
outputVars == <<database, given, document, read_back>>
vars == <<loopVars, recognizerVars, lookupVars, outputVars>>

Returned == {"Ok", "Err", "panic"}

NoExecution ==
    [executable |-> <<>>, arguments |-> <<>>, working_dir |-> <<>>, environment |-> <<>>]
NoSemantic == Semantic("None", NoCompile)
\* into_entries not called yet
NotCollected == [collected |-> FALSE, value |-> <<>>]
\* lookup not called
NotLooked == [done |-> FALSE, match |-> NoMatch, candidate |-> 0]
NoLookup ==
    /\ argument = <<>>
    /\ looked = NotLooked
\* to_json and from_json not called
NotWritten == [written |-> FALSE, json |-> NotAnArray]
Written(json) == [written |-> TRUE, json |-> json]
NotRead == [done |-> FALSE, result |-> ReadErr]
NoOutput ==
    /\ database = [format |-> [command_as_array |-> TRUE, drop_output_field |-> FALSE],
                   content |-> [include_only_existing_source |-> FALSE,
                                paths_to_include |-> <<>>,
                                paths_to_exclude |-> <<>>]]
    /\ given = <<>>
    /\ document = NotWritten
    /\ read_back = NotRead
\* the state of a run without a Build
NoBuild ==
    /\ configuration = [compilers_to_recognize |-> <<>>, compilers_to_exclude |-> <<>>]
    /\ current_directory = <<>>
    /\ files = {}
    /\ consulted = 0
    /\ unwrapped = NoExecution
    /\ new_entries = NotCollected

Init ==
    /\ pc = "wait"
    /\ handler \in {"ExecutionLogger", "Other"}
    /\ logger = NewLogger
    /\ debugged_processes = {}
    /\ debug_event = NoEvent
    /\ response = NoResponse
    /\ continued = <<>>
    /\ detached = <<>>
    /\ stderr = 0
    /\ os_error = "none"
    /\ nevents = 0
    /\ lifecycle = [p \in Pids |-> "None"]
    /\ NoLookup
    /\ NoOutput
    /\ input = NoExecution
    /\ result = NoSemantic
    /\ NoBuild

\* the history kept of a received event: a CreateProcess or ExitProcess
\* replaces what was last noted for its pid
Lifecycle(noted, ev) ==
    IF ev.info \in {"CreateProcess", "ExitProcess"}
    THEN [noted EXCEPT ![ev.process_id] = ev.info]
    ELSE noted

\* wait_for_debug_event returns an event
WaitForDebugEvent ==
    /\ pc = "wait"
    /\ nevents < MaxEvents
    /\ \E ev \in DebugEvent : debug_event' = ev
    /\ nevents' = nevents + 1
    /\ lifecycle' = Lifecycle(lifecycle, debug_event')
    /\ continued' = <<>>
    /\ response' = NoResponse
    /\ pc' = "track"
    /\ UNCHANGED <<handler, logger, debugged_processes, detached, stderr, os_error>>
    /\ UNCHANGED recognizerVars
    /\ UNCHANGED <<lookupVars, outputVars>>

\* wait_for_debug_event fails (timeout or any other error): `?` returns it
WaitFails ==
    /\ pc = "wait"
    /\ pc' = "Err"
    /\ UNCHANGED <<handler, logger, debugged_processes, debug_event, response,
                   continued, detached, stderr, os_error, nevents>>
    /\ UNCHANGED <<lifecycle, recognizerVars>>
    /\ UNCHANGED <<lookupVars, outputVars>>

\* the first match of the loop body, returning when the last attached
\* process has exited
TrackProcess_ReturnsWhenEmpty ==
    /\ pc = "track"
    /\ IF debug_event.info = "CreateProcess"
       THEN /\ debugged_processes' = debugged_processes \cup {debug_event.process_id}
            /\ pc' = IF debug_event.process_id \notin debugged_processes
                     THEN "handle" ELSE "panic"
       ELSE IF debug_event.info = "ExitProcess"
       THEN /\ debugged_processes' = debugged_processes \ {debug_event.process_id}
            /\ pc' = IF debug_event.process_id \notin debugged_processes THEN "panic"
                     ELSE IF debugged_processes' = {} THEN "Ok"
                     ELSE "handle"
       ELSE /\ debugged_processes' = debugged_processes
            /\ pc' = "handle"
    /\ UNCHANGED <<handler, logger, debug_event, response, continued, detached,
                   stderr, os_error, nevents>>
    /\ UNCHANGED <<lifecycle, recognizerVars>>
    /\ UNCHANGED <<lookupVars, outputVars>>

\* the first match of the loop body with an ExitProcess arm that forgets to
\* remove the pid
TrackProcess_KeepsExited ==
    /\ pc = "track"
    /\ IF debug_event.info = "CreateProcess"
       THEN LET inserted == debug_event.process_id \notin debugged_processes
            IN  /\ debugged_processes' = debugged_processes \cup {debug_event.process_id}
                /\ pc' = IF inserted THEN "handle" ELSE "panic"
       ELSE /\ debugged_processes' = debugged_processes
            /\ pc' = "handle"
    /\ UNCHANGED <<handler, logger, debug_event, response, continued, detached,
                   stderr, os_error, nevents>>
    /\ UNCHANGED <<lifecycle, recognizerVars>>
    /\ UNCHANGED <<lookupVars, outputVars>>

\* the first match of the loop body: the attached set and its two asserts
TrackProcess ==
    /\ pc = "track"
    /\ IF debug_event.info = "CreateProcess"
       THEN LET inserted == debug_event.process_id \notin debugged_processes
            IN  /\ debugged_processes' = debugged_processes \cup {debug_event.process_id}
                /\ pc' = IF inserted THEN "handle" ELSE "panic"
       ELSE IF debug_event.info = "ExitProcess"
       THEN LET removed == debug_event.process_id \in debugged_processes
            IN  /\ debugged_processes' = debugged_processes \ {debug_event.process_id}
                /\ pc' = IF removed THEN "handle" ELSE "panic"
       ELSE /\ debugged_processes' = debugged_processes
            /\ pc' = "handle"
    /\ UNCHANGED <<handler, logger, debug_event, response, continued, detached,
                   stderr, os_error, nevents>>
    /\ UNCHANGED <<lifecycle, recognizerVars>>
    /\ UNCHANGED <<lookupVars, outputVars>>

\* What the operating system can answer to the calls handle_event makes for ev
OsFailures(ev) ==
    IF ev.info = "CreateProcess" THEN SnapshotFailures
    ELSE IF ev.info = "ExitProcess" THEN FinishFailures
    ELSE {"none"}

ExitStatuses(ev) == IF ev.info = "ExitProcess" THEN ExitCodes ELSE {0}

\* handler.handle_event(&debug_event), the handler being the ExecutionLogger
LoggerHandleEvent ==
    /\ pc = "handle"
    /\ handler = "ExecutionLogger"
    /\ \E failure \in OsFailures(debug_event), status \in ExitStatuses(debug_event) :
         LET r == handle_event(logger, debug_event, failure, failure, status, nevents)
         IN  /\ os_error' = failure
             /\ logger' = r.self
             /\ response' = r.response
             /\ stderr' = stderr + r.lines
             /\ pc' = IF r.panic THEN "panic" ELSE "respond"
    /\ UNCHANGED <<handler, debugged_processes, debug_event, continued, detached,
                   nevents>>
    /\ UNCHANGED <<lifecycle, recognizerVars>>
    /\ UNCHANGED <<lookupVars, outputVars>>

\* handler.handle_event(&debug_event) of any other DebugEventHandler
OtherHandleEvent ==
    /\ pc = "handle"
    /\ handler = "Other"
    /\ \E r \in DebugEventResponse : response' = r
    /\ pc' = "respond"
    /\ UNCHANGED <<handler, logger, debugged_processes, debug_event, continued,
                   detached, stderr, os_error, nevents>>
    /\ UNCHANGED <<lifecycle, recognizerVars>>
    /\ UNCHANGED <<lookupVars, outputVars>>

\* continue_event that always reports the exception as handled
continue_event_Handled(continuation, ok, next) ==
    /\ continued' = Append(continued, "Handled")
    /\ pc' = IF ok THEN next ELSE "Err"

\* DebugEvent::continue_event(handled), as the loop uses it: the call is made
\* with the status of the response, and its error is returned with `?`
continue_event(continuation, ok, next) ==
    /\ continued' = Append(continued, continuation)
    /\ pc' = IF ok THEN next ELSE "Err"

\* the second match of the loop body
Respond ==
    /\ pc = "respond"
    /\ \/ /\ response.kind = "Continue"
          /\ \E ok \in BOOLEAN : continue_event(response.continuation, ok, "wait")
       \/ /\ response.kind = "ExitDetach"
          /\ \E ok \in BOOLEAN : continue_event(response.continuation, ok, "detach")
       \/ /\ response.kind = "Exit"
          /\ pc' = "Ok"
          /\ continued' = continued
    /\ UNCHANGED <<handler, logger, debugged_processes, debug_event, response,
                   detached, stderr, os_error, nevents>>
    /\ UNCHANGED <<lifecycle, recognizerVars>>
    /\ UNCHANGED <<lookupVars, outputVars>>

Range(s) == {s[i] : i \in 1..Len(s)}

\* one turn of `for pid in debugged_processes`: a failed detach is printed
DetachProcess ==
    /\ pc = "detach"
    /\ \E pid \in debugged_processes \ Range(detached), ok \in BOOLEAN :
         /\ detached' = Append(detached, pid)
         /\ stderr' = IF ok THEN stderr ELSE stderr + 1
    /\ UNCHANGED <<pc, handler, logger, debugged_processes, debug_event, response,
                   continued, os_error, nevents>>
    /\ UNCHANGED <<lifecycle, recognizerVars>>
    /\ UNCHANGED <<lookupVars, outputVars>>

\* a return from inside the loop over debugged_processes
ReturnAfterDetach_Early ==
    /\ pc = "detach"
    /\ detached # <<>> \/ debugged_processes = {}
    /\ pc' = "Ok"
    /\ UNCHANGED <<handler, logger, debugged_processes, debug_event, response,
                   continued, detached, stderr, os_error, nevents>>
    /\ UNCHANGED <<lifecycle, recognizerVars>>
    /\ UNCHANGED <<lookupVars, outputVars>>

\* the loop over debugged_processes is over: return Ok(())
ReturnAfterDetach ==
    /\ pc = "detach"
    /\ debugged_processes \subseteq Range(detached)
    /\ pc' = "Ok"
    /\ UNCHANGED <<handler, logger, debugged_processes, debug_event, response,
                   continued, detached, stderr, os_error, nevents>>
    /\ UNCHANGED <<lifecycle, recognizerVars>>
    /\ UNCHANGED <<lookupVars, outputVars>>

Next ==
    \/ WaitForDebugEvent
    \/ WaitFails
    \/ TrackProcess
    \/ LoggerHandleEvent
    \/ OtherHandleEvent
    \/ Respond
    \/ DetachProcess
    \/ ReturnAfterDetach

Spec == Init /\ [][Next]_vars

(***************************************************************************)
(* The recognizer applied to one execution of a gcc-like compiler.         *)
(***************************************************************************)
\* the tokens of the longer executions
LongTokens ==
    {<<"-", "c">>, <<"-", "o">>, <<"-", "l", "m">>, <<"a", ".", "c">>,
     <<"a", ".", "o">>}

ArgumentVectors ==
    UNION ({[1..n -> Tokens] : n \in 0..MaxArgs}
             \cup {[1..n -> LongTokens] : n \in 0..MaxLongArgs})

Environments ==
    {<<>>,
     [n \in {"CPATH"} |-> <<"p", ";", "q">>],
     [n \in {"CPATH", "C_INCLUDE_PATH", "CPLUS_INCLUDE_PATH", "OBJC_INCLUDE_PATH"} |->
         IF n = "CPATH" THEN <<"q">>
         ELSE IF n = "C_INCLUDE_PATH" THEN <<";", "p">>
         ELSE IF n = "CPLUS_INCLUDE_PATH" THEN <<"r">>
         ELSE <<"s", ";", "t">>]}

InitRecognizer ==
    /\ pc = "wait"
    /\ handler = "ExecutionLogger"
    /\ logger = NewLogger
    /\ debugged_processes = {}
    /\ debug_event = NoEvent
    /\ response = NoResponse
    /\ continued = <<>>
    /\ detached = <<>>
    /\ stderr = 0
    /\ os_error = "none"
    /\ nevents = 0
    /\ lifecycle = [p \in Pids |-> "None"]
    /\ NoLookup
    /\ NoOutput
    /\ \E argv \in ArgumentVectors, env \in Environments :
         input = [executable |-> <<"/", "u", "s", "r", "/", "b", "i", "n", "/", "c", "c">>,
                  arguments |-> <<(<<"c", "c">>)>> \o argv,
                  working_dir |-> <<"/", "h", "o", "m", "e", "/", "u", "s", "e", "r", "/", "p", "r", "o", "j", "e", "c", "t">>,
                  environment |-> env]
    /\ result = NoSemantic
    /\ NoBuild

\* ToolGcc::recognize on an execution of a gcc-like program: compilation
Recognize ==
    /\ result = NoSemantic
    /\ result' = compilation(input)
    /\ UNCHANGED <<input, configuration, current_directory, files, consulted,
                   unwrapped, new_entries, loopVars>>
    /\ UNCHANGED <<lookupVars, outputVars>>

NextRecognizer == Recognize

SpecRecognizer == InitRecognizer /\ [][NextRecognizer]_vars

(***************************************************************************)
(* Build::recognize on one execution, then into_entries on what it         *)
(* recognized (main.rs, the pipeline of the runs).                         *)
(***************************************************************************)
Executables ==
    {<<"C", ":", "\\", "b", "i", "n", "\\", "c", "c", ".", "e", "x", "e">>, <<"C", ":", "\\", "b", "i", "n", "\\", "a", "r", "m", "-", "g", "c", "c", "-", "9", ".", "e", "x", "e">>, <<"C", ":", "\\", "b", "i", "n", "\\", "c", "l", "a", "n", "g", ".", "e", "x", "e">>,
     <<"C", ":", "\\", "b", "i", "n", "\\", "c", "c", "a", "c", "h", "e", ".", "e", "x", "e">>, <<"C", ":", "\\", "b", "i", "n", "\\", "d", "i", "s", "t", "c", "c", ".", "e", "x", "e">>, <<"C", ":", "\\", "b", "i", "n", "\\", "n", "v", "c", "c", ".", "e", "x", "e">>,
     <<"C", ":", "\\", "o", "p", "t", "\\", "w", "r", "a", "p", ".", "e", "x", "e">>, <<"C", ":", "\\", "b", "i", "n", "\\", "l", "d", ".", "e", "x", "e">>}

\* the programs that ToolWrapper unwraps
Wrappers == {e \in Executables : is_ccache_call(e) \/ is_distcc_call(e)}

\* configuration::Compilation: the compilers to recognize and to exclude
Compilation(compilers_to_recognize, compilers_to_exclude) ==
    [compilers_to_recognize |-> compilers_to_recognize,
     compilers_to_exclude |-> compilers_to_exclude]
CompilerWrapper(executable, additional_flags) ==
    [executable |-> executable, additional_flags |-> additional_flags]

Configurations ==
    {Compilation(<<>>, <<>>),
     Compilation(<<CompilerWrapper(<<"C", ":", "\\", "o", "p", "t", "\\", "w", "r", "a", "p", ".", "e", "x", "e">>, <<(<<"-", "D", "W">>)>>),
                   CompilerWrapper(<<"C", ":", "\\", "b", "i", "n", "\\", "c", "c", ".", "e", "x", "e">>, <<(<<"-", "D", "X">>)>>)>>, <<>>),
     Compilation(<<CompilerWrapper(<<"C", ":", "\\", "o", "p", "t", "\\", "w", "r", "a", "p", ".", "e", "x", "e">>, <<(<<"-", "D", "W">>)>>)>>,
                 <<(<<"C", ":", "\\", "b", "i", "n", "\\", "c", "c", ".", "e", "x", "e">>), (<<"C", ":", "\\", "o", "p", "t", "\\", "w", "r", "a", "p", ".", "e", "x", "e">>)>>)}

\* the current directory of the tool, and the files that may exist
CurrentDirectory == <<"C", ":", "\\", "w">>
FileSystems == {{}, {<<"C", ":", "\\", "b", "i", "n", "\\", "c", "c">>}, {<<"C", ":", "\\", "w", "\\", "c", "c">>}}
SearchPaths == {<<"C", ":", "\\", "b", "i", "n">>, <<";", "C", ":", "\\", "n", "o", "n", "e", ";", "C", ":", "\\", "b", "i", "n">>}
BuildEnvironments == {<<>>} \cup {[n \in {"PATH"} |-> p] : p \in SearchPaths}

BuildArguments == UNION {[1..n -> BuildTokens] : n \in 0..MaxBuildArgs}

InitBuild ==
    /\ pc = "wait"
    /\ handler = "ExecutionLogger"
    /\ logger = NewLogger
    /\ debugged_processes = {}
    /\ debug_event = NoEvent
    /\ response = NoResponse
    /\ continued = <<>>
    /\ detached = <<>>
    /\ stderr = 0
    /\ os_error = "none"
    /\ nevents = 0
    /\ lifecycle = [p \in Pids |-> "None"]
    /\ NoLookup
    /\ NoOutput
    /\ configuration \in Configurations
    /\ current_directory = CurrentDirectory
    /\ \E executable \in Executables, argv \in BuildArguments,
          env \in BuildEnvironments, fs \in FileSystems :
         /\ executable \notin Wrappers => (env = <<>> /\ fs = {})
         /\ files = fs
         /\ input = [executable |-> executable,
                     arguments |-> <<executable>> \o argv,
                     working_dir |-> <<"C", ":", "\\", "p">>,
                     environment |-> env]
    /\ result = NoSemantic
    /\ consulted = 0
    /\ unwrapped = NoExecution
    /\ new_entries = NotCollected

\* build.recognize(run) of main.rs: Build::new(cfg).recognize; unwrapped is
\* the execution ToolWrapper hands to compilation when it is the tool asked
BuildRecognize ==
    /\ result.kind = "None"
    /\ \E outcome \in {Build_recognize(Build_new(configuration), input,
                                        current_directory, files)} :
           /\ result' = outcome.result
           /\ consulted' = outcome.consulted
           /\ unwrapped' =
                  IF /\ outcome.consulted = 3
                     /\ \/ is_ccache_call(input.executable)
                              /\ ~is_ccache_query(input.arguments)
                        \/ ~is_ccache_call(input.executable)
                              /\ is_distcc_call(input.executable)
                              /\ ~is_distcc_query(input.arguments)
                  THEN remove_wrapper(input, current_directory, files)
                  ELSE NoExecution
    /\ UNCHANGED <<input, configuration, current_directory, files, new_entries, loopVars>>
    /\ UNCHANGED <<lookupVars, outputVars>>

\* semantic.into_entries() of main.rs, on the Ok(Some(semantic)) of recognize
IntoEntries ==
    /\ recognized_ok(result)
    /\ ~new_entries.collected
    /\ new_entries' = [collected |-> TRUE, value |-> into_entries(result)]
    /\ UNCHANGED <<input, result, configuration, current_directory, files,
                   consulted, unwrapped, loopVars>>
    /\ UNCHANGED <<lookupVars, outputVars>>

NextBuild == BuildRecognize \/ IntoEntries

SpecBuild == InitBuild /\ [][NextBuild]_vars

(***************************************************************************)
(* FlagParser::lookup on the table of tool_gcc.rs, one argument at a time.  *)
(***************************************************************************)
MaxSuffixLen == 1

\* what is glued to a key
SuffixChars == {"b", "=", "2"}
RECURSIVE Suffixes(_)
Suffixes(n) ==
    IF n = 0 THEN {<<>>}
    ELSE Suffixes(n - 1) \cup
         {Append(s, ch) : s \in {t \in Suffixes(n - 1) : Len(t) = n - 1}, ch \in SuffixChars}

\* the arguments looked up: the empty one, every key, every key with
\* something glued to it, every start of a key, and some usual arguments
LookupArgumentsOf(keys) ==
    {k \o s : k \in keys, s \in Suffixes(MaxSuffixLen)}
        \cup UNION {{SubSeq(k, 1, n) : n \in 0..Len(k)} : k \in keys}
        \cup {<<"-", "W", "a", "l", "l">>, <<"-", "O", "2">>, <<"a", ".", "c">>}

LookupArguments == LookupArgumentsOf(FlagKeys(FLAG_DEFINITION))

\* the state of a run without the debug loop and without a recognizer
NoLoop ==
    /\ pc = "wait"
    /\ handler = "ExecutionLogger"
    /\ logger = NewLogger
    /\ debugged_processes = {}
    /\ debug_event = NoEvent
    /\ response = NoResponse
    /\ continued = <<>>
    /\ detached = <<>>
    /\ stderr = 0
    /\ os_error = "none"
    /\ nevents = 0
    /\ lifecycle = [p \in Pids |-> "None"]
NoRecognizer ==
    /\ input = NoExecution
    /\ result = NoSemantic
    /\ NoBuild

InitLookup ==
    /\ NoLoop
    /\ NoRecognizer
    /\ argument \in LookupArguments
    /\ looked = NotLooked
    /\ NoOutput

\* self.lookup(key) of FlagParser::new(&FLAG_DEFINITION_MAP)
Lookup ==
    /\ ~looked.done
    /\ \E flags \in {FLAG_DEFINITION_MAP} :
         \E c \in {SkipWhile(flags, argument)} :
           looked' = [done |-> TRUE,
                      match |-> lookup_from(flags, argument, c),
                      candidate |-> matched_candidate(flags, argument, c)]
    /\ UNCHANGED <<argument, loopVars, recognizerVars, outputVars>>

NextLookup == Lookup

SpecLookup == InitLookup /\ [][NextLookup]_vars

(***************************************************************************)
(* CompilationDatabase::to_json on a list of entries and from_json on what  *)
(* it wrote, or from_json on a document written by somebody else.           *)
(***************************************************************************)
MaxEntries == 2

\* configuration::Format and configuration::Content
Format(command_as_array, drop_output_field) ==
    [command_as_array |-> command_as_array, drop_output_field |-> drop_output_field]
Content(include_only_existing_source, paths_to_include, paths_to_exclude) ==
    [include_only_existing_source |-> include_only_existing_source,
     paths_to_include |-> paths_to_include,
     paths_to_exclude |-> paths_to_exclude]

\* CompilationDatabase::new
CompilationDatabase(format, content) == [format |-> format, content |-> content]

Formats == {Format(a, d) : a \in BOOLEAN, d \in BOOLEAN}
\* Format of main.rs and Content::default
DefaultFormat == Format(TRUE, FALSE)
DefaultContent == Content(FALSE, <<>>, <<>>)

IncludePaths ==
    {<<>>, <<(<<"C", ":", "\\", "w", "\\", "s">>)>>, <<(<<"C", ":", "\\", "x">>), (<<"C", ":", "\\", "w">>)>>, <<(<<"C", ":", "\\", "w", "\\", "a", ".", "c", "\\", "g", "e", "n">>)>>}
ExcludePaths == {<<>>, <<(<<"C", ":", "\\", "w", "\\", "s">>)>>, <<(<<"C", ":", "\\", "w", "\\", "a", ".", "c", "\\", "g", "e", "n">>)>>}
Contents ==
    {Content(e, i, x) : e \in BOOLEAN, i \in IncludePaths, x \in ExcludePaths}

\* the sources of the entries and the files that may exist
SourceFiles == {<<"C", ":", "\\", "w", "\\", "a", ".", "c">>, <<"C", ":", "\\", "w", "\\", "s", "\\", "b", ".", "c">>}
ExistingFiles == {{}, {<<"C", ":", "\\", "w", "\\", "a", ".", "c">>}, SourceFiles}

\* the entries given to to_json
OutputCompilers == {<<"c", "c">>, <<"c", "c", "1">>, <<"c", "\"">>}
OutputFlags ==
    {<<(<<"a", ",", "b">>)>>, <<(<<"b">>), (<<"a">>)>>, <<(<<"a", " ", "\\">>), (<<"\\", "\"", "b">>), (<<>>)>>}
OutputEntries ==
    {[file |-> file,
      directory |-> <<"C", ":", "\\", "w">>,
      output |-> IF file = <<"C", ":", "\\", "w", "\\", "a", ".", "c">> THEN <<(<<"C", ":", "\\", "w", "\\", "a", ".", "o">>)>> ELSE <<>>,
      arguments |-> <<compiler>> \o flags] :
        file \in SourceFiles, compiler \in OutputCompilers, flags \in OutputFlags}

\* the lists of at most n elements of S
RECURSIVE ListsOf(_, _)
ListsOf(S, n) ==
    IF n = 0 THEN {<<>>}
    ELSE ListsOf(S, n - 1) \cup
         {Append(l, e) : l \in {k \in ListsOf(S, n - 1) : Len(k) = n - 1}, e \in S}

\* the objects of the documents given to from_json alone
Items ==
    {SerializableEntry(Present(<<"a", ".", "c">>), Present(<<"C", ":", "\\", "w">>), Present(<<"a", ".", "o">>),
                       Present(<<(<<"c", "c">>), (<<"a", ".", "c">>)>>), Absent),
     SerializableEntry(Present(<<"b", ".", "c">>), Present(<<"C", ":", "\\", "w">>), Absent,
                       Absent, Present(<<"c", "c", " ", "\"", "b", " ", "c", "\"", " ", "b", ".", "c">>)),
     SerializableEntry(Present(<<"b", ".", "c">>), Present(<<"C", ":", "\\", "w">>), Absent,
                       Absent, Present(<<>>)),
     SerializableEntry(Absent, Present(<<"C", ":", "\\", "w">>), Absent,
                       Present(<<(<<"c", "c">>), (<<"a", ".", "c">>)>>), Absent),
     SerializableEntry(Present(<<"a", ".", "c">>), Absent, Absent,
                       Present(<<(<<"c", "c">>), (<<"a", ".", "c">>)>>), Absent),
     SerializableEntry(Present(<<"a", ".", "c">>), Present(<<"C", ":", "\\", "w">>), Absent, Absent, Absent),
     SerializableEntry(Present(<<>>), Present(<<"C", ":", "\\", "w">>), Absent,
                       Present(<<(<<"c", "c">>), (<<"a", ".", "c">>)>>), Absent),
     SerializableEntry(Present(<<"a", ".", "c">>), Present(<<>>), Absent,
                       Present(<<(<<"c", "c">>), (<<"a", ".", "c">>)>>), Absent),
     SerializableEntry(Present(<<"a", ".", "c">>), Present(<<"C", ":", "\\", "w">>), Present(<<>>),
                       Present(<<(<<"c", "c">>), (<<"a", ".", "c">>)>>), Absent),
     SerializableEntry(Present(<<"a", ".", "c">>), Present(<<"C", ":", "\\", "w">>), Absent,
                       Present(<<>>), Absent)}
Documents == {NotAnArray} \cup {Document(items) : items \in ListsOf(Items, MaxEntries)}

InitOutput ==
    /\ NoLoop
    /\ input = NoExecution
    /\ result = NoSemantic
    /\ configuration = [compilers_to_recognize |-> <<>>, compilers_to_exclude |-> <<>>]
    /\ current_directory = <<>>
    /\ consulted = 0
    /\ unwrapped = NoExecution
    /\ new_entries = NotCollected
    /\ NoLookup
    /\ read_back = NotRead
    /\ \/ /\ document = NotWritten
          /\ given \in ListsOf(OutputEntries, MaxEntries)
          /\ files \in ExistingFiles
          /\ \E format \in Formats, content \in Contents :
                /\ Len(given) # 1 =>
                      (content = DefaultContent /\ files = {})
                /\ content # DefaultContent => format = DefaultFormat
                /\ database = CompilationDatabase(format, content)
       \/ /\ \E json \in Documents : document = Written(json)
          /\ given = <<>>
          /\ files = {}
          /\ database = CompilationDatabase(DefaultFormat, DefaultContent)

\* database.to_json(&entries)
ToJson ==
    /\ ~document.written
    /\ document' = Written(to_json(database, given, files))
    /\ UNCHANGED <<database, given, read_back, loopVars, recognizerVars, lookupVars>>

\* database.from_json(&document)
FromJson ==
    /\ document.written
    /\ ~read_back.done
    /\ read_back' = [done |-> TRUE, result |-> from_json(document.json)]
    /\ UNCHANGED <<database, given, document, loopVars, recognizerVars, lookupVars>>

NextOutput == ToJson \/ FromJson

SpecOutput == InitOutput /\ [][NextOutput]_vars


(***************************************************************************)
(* Properties of the logger and of the loop.                               *)
(***************************************************************************)
LoggerRuns == handler = "ExecutionLogger"

EventKinds(execution) ==
    [i \in 1..Len(execution.events) |-> execution.events[i].kind]

\* C1: every recorded execution's event list is [Start] or [Start, Stop], and
\* once the logger has answered ExitDetach (so also when the loop has ended on
\* that answer) every recorded execution's event list is exactly [Start, Stop].
C1_StartThenStop ==
    /\ \A id \in DOMAIN logger.executions :
         EventKinds(logger.executions[id]) \in {<<"Start">>, <<"Start", "Stop">>}
    /\ (LoggerRuns /\ response.kind = "ExitDetach")
         => \A id \in DOMAIN logger.executions :
              EventKinds(logger.executions[id]) = <<"Start", "Stop">>

\* the loop has returned Ok on the logger's ExitDetach with two executions
\* recorded, each started and stopped
C1_Witness ==
    /\ LoggerRuns
    /\ pc = "Ok"
    /\ response.kind = "ExitDetach"
    /\ logger.next_id = 2
    /\ \A id \in DOMAIN logger.executions :
         EventKinds(logger.executions[id]) = <<"Start", "Stop">>

\* the logger is handling a CreateProcess event and a call of the snapshot fails
SnapshotFails ==
    /\ pc = "handle"
    /\ LoggerRuns
    /\ debug_event.info = "CreateProcess"
    /\ os_error' # "none"

\* C2: when any step of the snapshot fails on a CreateProcess event, one line
\* is logged, the handler returns Continue(NotHandled) and the logger's state
\* (executions, live-pid map, next id) is unchanged.
C2_SnapshotFailureLeavesLogger ==
    [][SnapshotFails =>
         /\ pc' = "respond"
         /\ response' = Continue("NotHandled")
         /\ stderr' = stderr + 1
         /\ logger' = logger]_vars

\* a snapshot has failed while an earlier process is recorded and live
C2_Witness ==
    /\ LoggerRuns
    /\ pc = "respond"
    /\ debug_event.info = "CreateProcess"
    /\ os_error = "parent_process_id"
    /\ logger.next_id = 1
    /\ DOMAIN logger.extant_processes # {}
    /\ debug_event.process_id \notin DOMAIN logger.extant_processes

\* C3: on an ExitProcess event the logger's handler always returns a response
\* (whether or not the process can be opened, its exit code read or its
\* execution found), so the loop goes on to acknowledge the event.
C3_ExitFailureContinues ==
    [][(pc = "handle" /\ LoggerRuns /\ debug_event.info = "ExitProcess")
         => pc' = "respond"]_vars

\* C4 as claimed: a run that has ended after the handler answered
\* ExitDetach(c) has acknowledged the event once with c, has detached exactly
\* the attached pids and has returned Ok.
C4_ExitDetachAlwaysDetaches ==
    (pc \in Returned /\ response.kind = "ExitDetach")
        => /\ pc = "Ok"
           /\ continued = <<response.continuation>>
           /\ Range(detached) = debugged_processes
           /\ Len(detached) = Cardinality(debugged_processes)

\* C4 amended: after ExitDetach(c) the event is acknowledged once with c
\* before any detach; if that call succeeds every attached pid and no other is
\* detached once and the loop returns Ok; if it fails the loop returns the
\* error and detaches nothing.  No further event is awaited either way.
C4_ExitDetachAfterAck ==
    /\ response.kind = "ExitDetach"
         => /\ pc \in {"respond", "detach", "Ok", "Err"}
            /\ pc = "respond" => continued = <<>> /\ detached = <<>>
            /\ pc # "respond" => continued = <<response.continuation>>
            /\ Range(detached) \subseteq debugged_processes
            /\ Len(detached) = Cardinality(Range(detached))
            /\ pc = "Ok" => Range(detached) = debugged_processes
            /\ pc = "Err" => detached = <<>>
    /\ detached # <<>> => response.kind = "ExitDetach"

\* the loop has returned Ok after detaching from two attached processes
C4_Witness ==
    /\ pc = "Ok"
    /\ response.kind = "ExitDetach"
    /\ Len(detached) = 2
    /\ continued = <<response.continuation>>

\* C5: no acknowledgement is made before the handler has returned; an event
\* is acknowledged at most once; the loop is back at the wait only after
\* exactly one acknowledgement with the status of the Continue response; an
\* event answered with Exit is never acknowledged.
C5_WaitHandleAckOrder ==
    /\ pc \in {"track", "handle", "respond"} => continued = <<>>
    /\ Len(continued) <= 1
    /\ (pc = "wait" /\ nevents > 0)
         => /\ response.kind = "Continue"
            /\ continued = <<response.continuation>>
    /\ (response.kind = "Continue" /\ pc \notin {"respond"})
         => continued = <<response.continuation>>
    /\ response.kind = "Exit" => continued = <<>> /\ pc \in {"respond", "Ok"}

\* the loop is waiting again after acknowledging a Continue(Handled), and the
\* logger is waiting again after a snapshot was taken
C5_Witness ==
    /\ pc = "wait"
    /\ nevents > 1
    /\ continued = <<"Handled">>
    /\ response = Continue("Handled")

\* the loop returns in this step
Returns == pc \notin Returned /\ pc' \in Returned

WaitError == pc = "wait" /\ pc' = "Err"
ExitDetachDone == pc = "detach" /\ response.kind = "ExitDetach" /\ pc' = "Ok"
HandlerExit == pc = "respond" /\ response.kind = "Exit" /\ pc' = "Ok"
ContinueError ==
    /\ pc = "respond"
    /\ response.kind \in {"Continue", "ExitDetach"}
    /\ Len(continued') = Len(continued) + 1
    /\ pc' = "Err"
AssertionFails ==
    /\ pc = "track"
    /\ debug_event.info \in {"CreateProcess", "ExitProcess"}
    /\ pc' = "panic"
HandlerPanics == pc = "handle" /\ pc' = "panic"

C8_ExitDetachOnlyWhenNoneAttached ==
    (LoggerRuns /\ response.kind = "ExitDetach") => debugged_processes = {}

\* the arrival index of the CreateProcess event of execution id
CreatedAt(id) == logger.executions[id].events[1].at

\* C9: the recorded ids are 0..next_id-1, an execution with a smaller id was
\* created by an earlier CreateProcess event, executions() lists the
\* executions in id order; and no step removes an execution, gives an id to
\* another process or reuses an id.
C9_IdsFollowArrival ==
    /\ [](/\ DOMAIN logger.executions = 0..(logger.next_id - 1)
          /\ \A i, j \in DOMAIN logger.executions :
               i < j <=> CreatedAt(i) < CreatedAt(j)
          /\ executions(logger) =
               [k \in 1..logger.next_id |-> logger.executions[k - 1]])
    /\ [][/\ logger'.next_id >= logger.next_id
          /\ \A id \in DOMAIN logger.executions :
               /\ id \in DOMAIN logger'.executions
               /\ logger'.executions[id].pid = logger.executions[id].pid
               /\ CreatedAt(id)' = CreatedAt(id)
          /\ \A id \in DOMAIN logger'.executions \ DOMAIN logger.executions :
               /\ id = logger.next_id
               /\ logger'.next_id = id + 1
               /\ debug_event.info = "CreateProcess"
               /\ logger'.executions[id].pid = debug_event.process_id]_vars

\* three executions are recorded, the third for a pid that was used before
C9_Witness ==
    /\ LoggerRuns
    /\ logger.next_id = 3
    /\ \E i, j \in DOMAIN logger.executions :
         i < j /\ logger.executions[i].pid = logger.executions[j].pid

(***************************************************************************)
(* Properties of the gcc-like recognizer.                                  *)
(***************************************************************************)
\* the keys of the flag table whose category is KindOfOutputInfo
InfoKeys ==
    {FLAG_DEFINITION_MAP[i].key :
        i \in {j \in DOMAIN FLAG_DEFINITION_MAP :
                  FLAG_DEFINITION_MAP[j].type_ = "KindOfOutputInfo"}}

\* the flag list is empty or holds a flag of category KindOfOutputInfo
IsQuery(flags) == flags = <<>> \/ HasType(flags, "KindOfOutputInfo")

\* the answer r to an execution whose arguments parsed to the flags of parsed
QueryIffInfo(parsed, r) ==
    parsed.status = "Ok" => (r.kind = "QueryCompiler" <=> IsQuery(parsed.flags))

\* C10: when the arguments of a gcc-like execution parse, compilation answers
\* QueryCompiler if and only if the parsed flag list is empty or holds a flag
\* of category KindOfOutputInfo, whatever else the list holds (a
\* preprocessor flag, sources or none); the flags of that category are
\* --help, --target-help and --version.
C10_QueryCompilerIffInfo ==
    /\ result # NoSemantic => QueryIffInfo(parse_flags(input), result)
    /\ InfoKeys = {<<"-", "-", "h", "e", "l", "p">>,
                   <<"-", "-", "t", "a", "r", "g", "e", "t", "-", "h", "e", "l", "p">>,
                   <<"-", "-", "v", "e", "r", "s", "i", "o", "n">>}

\* the answer is QueryCompiler to -M a.c --version, which holds a
\* preprocessor flag and a source before the flag that asks for the version
C10_Witness ==
    /\ result.kind = "QueryCompiler"
    /\ input.arguments = <<(<<"c", "c">>), (<<"-", "M">>), (<<"a", ".", "c">>),
                           (<<"-", "-", "v", "e", "r", "s", "i", "o", "n">>)>>

\* the flags of a parsed list whose first raw token is one of tokens
FlagsOf(flags, tokens) == {i \in 1..Len(flags) : flags[i].arguments[1] \in tokens}

\* the answer r to an execution whose arguments parsed to parsed: a flag -E,
\* -M or -MM without a flag of the compiler's information gives Preprocess,
\* -E being of category KindOfOutputNoLinking, -M and -MM of PreprocessorMake
PreprocessIfStandalone(parsed, r) ==
    (/\ parsed.status = "Ok"
     /\ ~HasType(parsed.flags, "KindOfOutputInfo")
     /\ FlagsOf(parsed.flags, {<<"-", "E">>, <<"-", "M">>, <<"-", "M", "M">>}) # {})
        => /\ r.kind = "Preprocess"
           /\ \A i \in FlagsOf(parsed.flags, {<<"-", "E">>}) :
                 parsed.flags[i].type_ = "KindOfOutputNoLinking"
           /\ \A i \in FlagsOf(parsed.flags, {<<"-", "M">>, <<"-", "M", "M">>}) :
                 parsed.flags[i].type_ = "PreprocessorMake"

\* C11: an execution of a gcc-like compiler whose arguments hold the flag -E,
\* -M or -MM and no flag of the compiler's information is classified as
\* Preprocess; -E is parsed with category KindOfOutputNoLinking, -M and -MM
\* with category PreprocessorMake.
C11_StandalonePreprocessFlags ==
    result # NoSemantic => PreprocessIfStandalone(parse_flags(input), result)

\* the first raw tokens of the flags of category Source, in order
RECURSIVE SourcesOf(_)
SourcesOf(flags) ==
    IF flags = <<>> THEN <<>>
    ELSE (IF Head(flags).type_ = "Source" THEN <<Head(flags).arguments[1]>>
          ELSE <<>>) \o SourcesOf(Tail(flags))

\* the value of the last flag of category KindOfOutputOutput, <<>> if none
OutputOf(flags) ==
    LET outputs == {i \in 1..Len(flags) : flags[i].type_ = "KindOfOutputOutput"}
    IN  IF outputs = {} THEN <<>>
        ELSE LET last == CHOOSE i \in outputs : \A j \in outputs : j <= i
             IN  <<flags[last].arguments[Len(flags[last].arguments)]>>

\* the raw tokens of the flags that are neither sources, outputs nor dropped
RECURSIVE KeptTokens(_)
KeptTokens(flags) ==
    IF flags = <<>> THEN <<>>
    ELSE (IF Head(flags).type_ \in {"Source", "KindOfOutputOutput", "Linker",
                                     "PreprocessorMake", "DirectorySearchLinker"}
          THEN <<>> ELSE Head(flags).arguments) \o KeptTokens(Tail(flags))

\* the Compile r made from the flags of parsed and the environment
Partitioned(parsed, environment, r) ==
    /\ r.compile.sources = SourcesOf(parsed.flags)
    /\ r.compile.output = OutputOf(parsed.flags)
    /\ \E inserted \in {<<>>, <<(<<"-", "c">>)>>} :
         r.compile.flags = inserted \o KeptTokens(parsed.flags)
                             \o flags_from_environment(environment)

\* C12: in every Compile the sources are the Source tokens in their order,
\* the output is the value of the last -o flag (absent if there is none), the
\* flags of category Linker, PreprocessorMake and DirectorySearchLinker are
\* dropped, and the raw tokens of all other flags are in Compile.flags in
\* their order (after the inserted -c, before the flags of the environment).
C12_SplitPartitions ==
    result.kind = "Compile"
        => Partitioned(parse_flags(input), input.environment, result)

\* a Compile of -lm -o a.o -o a.c a.c: a dropped linker flag and two outputs
C12_Witness ==
    /\ result.kind = "Compile"
    /\ input.arguments = <<(<<"c", "c">>), (<<"-", "l", "m">>), (<<"-", "o">>),
                           (<<"a", ".", "o">>), (<<"-", "o">>), (<<"a", ".", "c">>),
                           (<<"a", ".", "c">>)>>
    /\ result.compile.output = <<(<<"a", ".", "c">>)>>
    /\ result.compile.flags = <<(<<"-", "c">>)>>

\* the answer r to an execution whose arguments parsed to parsed: without a
\* Source flag it is a query, a preprocess or the error
ErrorWithoutSources(parsed, r) ==
    (parsed.status = "Ok" /\ ~HasType(parsed.flags, "Source"))
        => r.kind \in {"QueryCompiler", "Preprocess", "Err"}

\* C13: every Compile has at least one source; an execution that is neither
\* a query of the compiler nor a preprocess and holds no Source token is
\* answered with an error, not with a Compile.
C13_CompileHasSources ==
    /\ result.kind = "Compile" => result.compile.sources # <<>>
    /\ result # NoSemantic => ErrorWithoutSources(parse_flags(input), result)

\* the link of two objects, cc -o a.o a.o a.o, is answered with the error
C13_Witness ==
    /\ result.kind = "Err"
    /\ input.arguments = <<(<<"c", "c">>), (<<"-", "o">>), (<<"a", ".", "o">>),
                           (<<"a", ".", "o">>), (<<"a", ".", "o">>)>>

\* the tokens of the flags the claim counts as no-linking
NoLinkingTokens == {<<"-", "c">>, <<"-", "S">>, <<"-", "E">>}

\* the Compile r has -c inserted before the tokens kept from the flags
Inserted(parsed, environment, r) ==
    r.compile.flags = <<(<<"-", "c">>)>> \o KeptTokens(parsed.flags)
                          \o flags_from_environment(environment)

\* -c is inserted in the Compile r exactly when none of -c, -S, -E is a flag
InsertedIffLinking(parsed, environment, r) ==
    /\ Inserted(parsed, environment, r)
         <=> FlagsOf(parsed.flags, NoLinkingTokens) = {}
    /\ ~Inserted(parsed, environment, r)
         => r.compile.flags = KeptTokens(parsed.flags)
                                  \o flags_from_environment(environment)
    /\ \E i \in 1..Len(r.compile.flags) : r.compile.flags[i] \in NoLinkingTokens

\* C14: in a Compile, -c is inserted as the first flag exactly when no flag
\* -c, -S or -E (the category KindOfOutputNoLinking) was parsed; otherwise no
\* -c is added; so every Compile.flags holds at least one no-linking flag.
C14_InsertsCompileOnly ==
    result.kind = "Compile"
        => InsertedIffLinking(parse_flags(input), input.environment, result)

\* the entries of a value without quotes: what lies between its separators
Entries(value) ==
    LET seps == {i \in 1..Len(value) : value[i] = ";"}
        cut == [k \in 0..(Cardinality(seps) + 1) |->
                   IF k = 0 THEN 0
                   ELSE IF k = Cardinality(seps) + 1 THEN Len(value) + 1
                   ELSE CHOOSE i \in seps : Cardinality({j \in seps : j < i}) = k - 1]
    IN  [k \in 1..(Cardinality(seps) + 1) |->
            SubSeq(value, cut[k - 1] + 1, cut[k] - 1)]

\* the pairs flag, entry for the entries of the variable name, "." for an
\* empty entry; nothing when the variable is absent
PairsOf(environment, name, flag) ==
    IF name \notin DOMAIN environment THEN <<>>
    ELSE LET entries == Entries(environment[name])
         IN  [k \in 1..(2 * Len(entries)) |->
                 IF k % 2 = 1 THEN flag
                 ELSE IF entries[k \div 2] = <<>> THEN <<".">>
                 ELSE entries[k \div 2]]

IncludeFlags(environment) ==
    PairsOf(environment, "CPATH", <<"-", "I">>)
        \o PairsOf(environment, "C_INCLUDE_PATH", <<"-", "I">>)
        \o PairsOf(environment, "CPLUS_INCLUDE_PATH", <<"-", "I">>)
        \o PairsOf(environment, "OBJC_INCLUDE_PATH",
                   <<"-", "i", "s", "y", "s", "t", "e", "m">>)

\* the flags of the Compile r end with the include flags of the environment,
\* after the flags of the command line
EndsWithIncludeFlags(parsed, environment, r) ==
    \E inserted \in {<<>>, <<(<<"-", "c">>)>>} :
        r.compile.flags = inserted \o KeptTokens(parsed.flags)
                              \o IncludeFlags(environment)

\* C15: the include flags of the environment come after all flags of the
\* command line of a Compile: a pair -I entry for each entry of CPATH, then of
\* C_INCLUDE_PATH, then of CPLUS_INCLUDE_PATH, in their order (-I . for an
\* empty entry), then a pair -isystem entry for each entry of
\* OBJC_INCLUDE_PATH; an absent variable gives nothing.
C15_EnvironmentFlagsLast ==
    result.kind = "Compile"
        => EndsWithIncludeFlags(parse_flags(input), input.environment, result)

\* cc -c a.c with the four variables set, one of them with an empty entry
C15_Witness ==
    /\ result.kind = "Compile"
    /\ input.arguments = <<(<<"c", "c">>), (<<"-", "c">>), (<<"a", ".", "c">>)>>
    /\ result.compile.flags =
         <<(<<"-", "c">>),
           (<<"-", "I">>), (<<"q">>),
           (<<"-", "I">>), (<<".">>), (<<"-", "I">>), (<<"p">>),
           (<<"-", "I">>), (<<"r">>),
           (<<"-", "i", "s", "y", "s", "t", "e", "m">>), (<<"s">>),
           (<<"-", "i", "s", "y", "s", "t", "e", "m">>), (<<"t">>)>>

(***************************************************************************)
(* Properties of the Build: the dispatcher, the wrappers, the resolver     *)
(* and the entries.                                                        *)
(***************************************************************************)
\* what the i-th tool of the Build answers to the input, asked on its own
Verdict(i) ==
    Tool_recognize(Build_new(configuration).tools[i], input, current_directory, files)

Excluded ==
    \E i \in 1..Len(configuration.compilers_to_exclude) :
        configuration.compilers_to_exclude[i] = input.executable

\* C16: ToolAny answers an excluded executable with an error and asks no
\* tool; otherwise it returns what the first tool that does not answer
\* Ok(None) returned, having asked the tools up to that one and none after
\* it; when every tool answers Ok(None) it returns an error; it never
\* returns Ok(None) itself.
C16_ToolAnyDispatch ==
    result.kind # "None" =>
        /\ ~not_recognized(result)
        /\ IF Excluded THEN recognized_with_error(result) /\ consulted = 0
           ELSE /\ consulted \in 1..Len(Build_new(configuration).tools)
                /\ \A i \in 1..(consulted - 1) : not_recognized(Verdict(i))
                /\ IF not_recognized(Verdict(consulted))
                   THEN /\ consulted = Len(Build_new(configuration).tools)
                        /\ recognized_with_error(result)
                   ELSE result = Verdict(consulted)

\* an excluded executable that ToolGcc would have made a Compile of
C16_Witness ==
    /\ Excluded
    /\ Verdict(1).kind = "Compile"
    /\ recognized_with_error(result)
    /\ consulted = 0

\* flags ends with suffix
EndsWith(flags, suffix) ==
    /\ Len(suffix) <= Len(flags)
    /\ SubSeq(flags, Len(flags) - Len(suffix) + 1, Len(flags)) = suffix

\* C17: an execution of the executable of a compiler to recognize that the
\* Build makes a Compile of has flags that end with the additional flags of
\* that compiler.
C17_UserWrapperFlags ==
    \A i \in 1..Len(configuration.compilers_to_recognize) :
        LET wrapper == configuration.compilers_to_recognize[i]
        IN  input.executable = wrapper.executable /\ result.kind = "Compile"
                => EndsWith(result.compile.flags, wrapper.additional_flags)

\* C18: the unwrapped execution of a ccache or distcc call has the arguments
\* of the call without argv[0], the working directory and the environment
\* of the call, and as executable what the resolver found for argv[1] in
\* PATH, or argv[1] itself when PATH is not set or nothing was found.
C18_UnwrapFrame ==
    unwrapped.arguments # <<>> =>
        /\ Len(input.arguments) >= 2
        /\ unwrapped.arguments = Tail(input.arguments)
        /\ unwrapped.working_dir = input.working_dir
        /\ unwrapped.environment = input.environment
        /\ LET resolution ==
                   IF "PATH" \in DOMAIN input.environment
                   THEN from_search_path(input.arguments[2], input.environment["PATH"],
                                         current_directory, files)
                   ELSE NotFound
           IN  unwrapped.executable =
                   IF resolution.ok THEN resolution.path ELSE input.arguments[2]

\* an unwrapped execution whose executable the resolver found
C18_Witness ==
    /\ unwrapped.arguments # <<>>
    /\ "PATH" \in DOMAIN input.environment
    /\ unwrapped.executable # input.arguments[2]
    /\ result.kind = "Compile"

\* a name without a separator and without a drive
IsBareName(name) ==
    /\ name # <<>>
    /\ ~has_prefix(name)
    /\ \A i \in 1..Len(name) : ~is_separator(name[i])

\* the canonical path of the first entry of the search path, the empty ones
\* aside, whose join with the name exists; NotFound when there is none
FirstInSearchPath(name, search_path) ==
    LET paths == split_paths(search_path)
        holding == {k \in 1..Len(paths) :
                       /\ paths[k] # <<>>
                       /\ trim_separators(join(paths[k], name)) \in files}
    IN  IF holding = {} THEN NotFound
        ELSE LET k == CHOOSE k \in holding : \A j \in holding : k <= j
             IN  Found(<<"\\", "\\", "?", "\\">> \o trim_separators(join(paths[k], name)))

\* C19: from_search_path of a bare name returns the canonical path of the
\* first entry of the search path whose join with the name exists, and
\* NotFound when no entry holds it, whatever the current directory holds.
C19_SearchPathResolution ==
    /\ unwrapped.arguments # <<>>
    /\ "PATH" \in DOMAIN input.environment
    /\ IsBareName(input.arguments[2])
    => from_search_path(input.arguments[2], input.environment["PATH"],
                        current_directory, files)
           = FirstInSearchPath(input.arguments[2], input.environment["PATH"])

\* path made absolute against directory
MadeAbsolute(directory, path) ==
    IF Len(path) >= 3 /\ path[2] = ":" /\ path[3] = "\\" THEN path
    ELSE directory \o <<"\\">> \o path

\* C20: into_entries of a Compile returns one entry for each source, in the
\* order of the sources, with the working directory as directory, the
\* source made absolute as file, the output made absolute when there is
\* one, and the compiler, the flags, -o and the output when there is one,
\* and the source as arguments; it returns None for a QueryCompiler and a
\* Preprocess.
C20_IntoEntries ==
    new_entries.collected =>
        IF result.kind = "Compile"
        THEN /\ Len(new_entries.value) = 1
             /\ Len(new_entries.value[1]) = Len(result.compile.sources)
             /\ \A i \in 1..Len(result.compile.sources) :
                    LET entry == new_entries.value[1][i]
                        compile == result.compile
                        source == compile.sources[i]
                    IN  /\ entry.directory = compile.working_dir
                        /\ entry.file = MadeAbsolute(compile.working_dir, source)
                        /\ entry.output =
                               [k \in 1..Len(compile.output) |->
                                   MadeAbsolute(compile.working_dir, compile.output[k])]
                        /\ entry.arguments =
                               <<compile.compiler>> \o compile.flags
                                   \o (IF compile.output = <<>> THEN <<>>
                                       ELSE <<(<<"-", "o">>), compile.output[1]>>)
                                   \o <<source>>
                        /\ entry.arguments[1] = compile.compiler
        ELSE result.kind \in {"QueryCompiler", "Preprocess"} /\ new_entries.value = <<>>

\* the entries of a relative and of an absolute source
C20_Witness ==
    /\ new_entries.collected
    /\ result.kind = "Compile"
    /\ result.compile.sources = <<(<<"a", ".", "c">>), (<<"C", ":", "\\", "s", "\\", "b", ".", "c">>)>>
    /\ new_entries.value[1][1].file = <<"C", ":", "\\", "p", "\\", "a", ".", "c">>
    /\ new_entries.value[1][2].file = <<"C", ":", "\\", "s", "\\", "b", ".", "c">>

\* ---------------------------------------------------------------------------
\* Properties of the attached set of run_debug_loop

\* the pids whose last CreateProcess or ExitProcess event received is a
\* CreateProcess: those with a CreateProcess and no later ExitProcess
CreatedNotExited == {p \in Pids : lifecycle[p] = "CreateProcess"}

C25_AtHandler ==
    pc = "handle" => debugged_processes = CreatedNotExited

C25_Asserts ==
    pc = "track" =>
        /\ (debug_event.info = "CreateProcess"
                /\ debug_event.process_id \in debugged_processes) => pc' = "panic"
        /\ (debug_event.info = "ExitProcess"
                /\ debug_event.process_id \notin debugged_processes) => pc' = "panic"
        /\ debug_event.info \notin {"CreateProcess", "ExitProcess"}
               => debugged_processes' = debugged_processes

\* C25: whenever the handler is invoked the attached set is exactly the pids
\* with a CreateProcess event received and no later ExitProcess, the current
\* event included; a CreateProcess for an attached pid or an ExitProcess for a
\* pid that is not attached fails the assertion and aborts the loop; events of
\* the other kinds leave the set unchanged
C25_AttachedSet == [](C25_AtHandler) /\ [][C25_Asserts]_vars

\* a pid was attached and exited, another is created, and the handler is
\* about to be invoked with only the created one attached
C25_Witness ==
    /\ pc = "handle"
    /\ debug_event.info = "CreateProcess"
    /\ debugged_processes = {debug_event.process_id}
    /\ \E q \in Pids : lifecycle[q] = "ExitProcess"

\* ---------------------------------------------------------------------------
\* Consistency of the two maps of the ExecutionLogger

HasStop(execution) ==
    \E i \in 1..Len(execution.events) : execution.events[i].kind = "Stop"

C30_Consistent ==
    /\ DOMAIN logger.executions = 0..(logger.next_id - 1)
    /\ \A p \in DOMAIN logger.extant_processes :
          /\ logger.extant_processes[p] \in DOMAIN logger.executions
          /\ logger.executions[logger.extant_processes[p]].pid = p
          /\ ~HasStop(logger.executions[logger.extant_processes[p]])
    /\ \A id \in DOMAIN logger.executions :
          ~HasStop(logger.executions[id]) =>
              Cardinality({p \in DOMAIN logger.extant_processes :
                              logger.extant_processes[p] = id}) = 1

\* an execution that is there changes only by the Stop pushed to it while its
\* pid is live and mapped to it; a new execution gets an id not used before
C30_Step ==
    /\ \A id \in DOMAIN logger.executions :
          /\ id \in DOMAIN logger'.executions
          /\ \/ logger'.executions[id] = logger.executions[id]
             \/ /\ ~HasStop(logger.executions[id])
                /\ logger.executions[id].pid \in DOMAIN logger.extant_processes
                /\ logger.extant_processes[logger.executions[id].pid] = id
                /\ logger'.executions[id].pid = logger.executions[id].pid
                /\ \E status \in ExitCodes, at \in 1..MaxEvents :
                      logger'.executions[id].events =
                          Append(logger.executions[id].events, StopEvent(at, status))
    /\ \A id \in DOMAIN logger'.executions \ DOMAIN logger.executions :
          /\ id = logger.next_id
          /\ ~HasStop(logger'.executions[id])

\* C30: the two maps of the logger are consistent after any sequence of events:
\* the ids are 0..next_id-1, every live pid maps to a recorded execution of
\* that pid without a Stop, every execution without a Stop is the target of
\* exactly one live pid, and a reused pid gets a new execution that receives
\* its Stop while the earlier execution of the pid stays as it was
C30_MapsConsistent == [](C30_Consistent) /\ [][C30_Step]_vars

\* a pid was reused: two executions of the same pid, both stopped, while the
\* other process is still running
C30_Witness ==
    /\ \E a, b \in DOMAIN logger.executions :
          /\ a < b
          /\ logger.executions[a].pid = logger.executions[b].pid
          /\ HasStop(logger.executions[a])
          /\ HasStop(logger.executions[b])
    /\ DOMAIN logger.extant_processes # {}

\* ---------------------------------------------------------------------------
\* Properties of FlagParser::lookup

\* k is at the start of a
StartsWith(a, k) == Len(k) <= Len(a) /\ SubSeq(a, 1, Len(k)) = k

\* the rule of the entry applies to the argument a
AppliesExactly(entry, a) == a = entry.key /\ exact_match_allowed(entry)
AppliesPartially(entry, a) == StartsWith(a, entry.key) /\ partial_match_allowed(entry)
Applies(entry, a) == AppliesExactly(entry, a) \/ AppliesPartially(entry, a)

\* C26: whenever lookup matches an argument to a key, the rule of that key
\* applies to the argument: the argument is the key and the key allows an exact
\* match, or the key is at the start of the argument and allows a partial
\* match; an argument that is only a proper start of a key is not matched to it
C26_MatchApplies ==
    (looked.done /\ looked.match.found) =>
        Applies(FLAG_DEFINITION_MAP[looked.candidate], argument)

\* the entry the lookup has to answer with for a: the exact one when there is
\* one, else the one with the longest key among those applying partially
Expected(flags, a) ==
    IF \E i \in 1..Len(flags) : AppliesExactly(flags[i], a)
    THEN CHOOSE i \in 1..Len(flags) : AppliesExactly(flags[i], a)
    ELSE CHOOSE i \in 1..Len(flags) :
            /\ AppliesPartially(flags[i], a)
            /\ \A j \in 1..Len(flags) :
                   AppliesPartially(flags[j], a) => Len(flags[j].key) <= Len(flags[i].key)

\* C27: for every non-empty argument to which some key applies, lookup returns
\* a match: the exact key if there is one, else the longest key that applies
\* partially
C27_FindsBestKey ==
    (/\ looked.done
     /\ argument # <<>>
     /\ \E i \in 1..Len(FLAG_DEFINITION_MAP) : Applies(FLAG_DEFINITION_MAP[i], argument))
        => /\ looked.match.found
           /\ looked.candidate = Expected(FLAG_DEFINITION_MAP, argument)

\* ---------------------------------------------------------------------------
\* Properties of the parsing of the arguments

\* the last token of the execution is a flag that takes the token after it
EndsWithFlagWantingToken(execution) ==
    /\ Len(execution.arguments) >= 2
    /\ execution.arguments[Len(execution.arguments)] = <<"-", "o">>
    /\ Len(execution.arguments) = 2
           \/ execution.arguments[Len(execution.arguments) - 1] # <<"-", "o">>

\* C28: the parsing of the arguments ends with a list of flags or with a parse
\* failure and never aborts; a flag that takes one following token and is the
\* last token gives a failure and does not consume past the end
C28_ParseNeverAborts ==
    result.kind # "None" =>
        /\ result.kind # "panic"
        /\ EndsWithFlagWantingToken(input) => result.kind = "Err"

\* ---------------------------------------------------------------------------
\* Properties of the compilation database

\* to_json was called on the entries given
WroteGiven == document.written /\ given # <<>>

\* the same file and the same arguments after the first
SameCall(a, b) ==
    a.file = b.file /\ Tail_(a.arguments, 2) = Tail_(b.arguments, 2)

\* the entry at j is the first of the entries given that make the same call
FirstOfItsCall(j) == \A i \in 1..(j - 1) : ~SameCall(given[i], given[j])

\* what is written for the entries at the places kept, in the order given
WrittenFor(kept) ==
    [n \in 1..Cardinality(kept) |->
        Serialize(database.format,
                  given[CHOOSE j \in kept : Cardinality({i \in kept : i <= j}) = n])]

\* the text the fingerprint of the filter is made of is new at j
NewFingerprint(j) ==
    \A i \in 1..(j - 1) :
        given[i].file = given[j].file =>
            JoinWith(Rev(Tail_(given[i].arguments, 2)), <<",">>)
                # JoinWith(Rev(Tail_(given[j].arguments, 2)), <<",">>)

C29_DropsOnlySameCall ==
    (WroteGiven /\ ~database.content.include_only_existing_source) =>
        \E kept \in SUBSET (1..Len(given)) :
            /\ document.json.items = WrittenFor(kept)
            /\ \A j \in (1..Len(given)) \ kept :
                   \E i \in kept : i < j /\ SameCall(given[i], given[j])

\* the components of the directory are the first components of the file
IsComponentPrefix(directory, file) ==
    /\ Len(components(directory)) <= Len(components(file))
    /\ \A k \in 1..Len(components(directory)) :
           components(directory)[k] = components(file)[k]

InSomeOf(paths, file) ==
    \E r \in 1..Len(paths) : IsComponentPrefix(paths[r], file)

\* C24: with the content filter enabled an entry is kept if and only if its
\* file exists, the include list is empty or the components of one of its
\* paths are the first components of the file, and the components of no
\* exclude path are; a file that is a proper ancestor of the directory is not
\* contained in it.  With the filter disabled every entry is kept.
C24_ContentFilter ==
    (WroteGiven /\ Len(given) = 1) =>
        (document.json.items # <<>>
            <=> \/ ~database.content.include_only_existing_source
                \/ /\ given[1].file \in files
                   /\ \/ database.content.paths_to_include = <<>>
                      \/ InSomeOf(database.content.paths_to_include, given[1].file)
                   /\ ~InSomeOf(database.content.paths_to_exclude, given[1].file))

C23_WitnessRefused ==
    /\ read_back.done
    /\ ~read_back.result.ok
    /\ Len(document.json.items) = 2
    /\ document.json.items[2].output = Present(<<>>)

\* the entry as it is expected back: without its output when the format
\* drops the field
ExpectedBack(entry) ==
    IF database.format.drop_output_field THEN [entry EXCEPT !.output = <<>>]
    ELSE entry

\* C22: for every list of valid entries no two of which are duplicates, and
\* for every format, from_json(to_json(E)) is E, the output left out when
\* drop_output_field is set; in the command format the splitter has to give
\* back every argument vector that was quoted and joined
C22_RoundTrip ==
    (/\ read_back.done
     /\ given # <<>>
     /\ ~database.content.include_only_existing_source
     /\ \A j \in 1..Len(given) : FirstOfItsCall(j) /\ NewFingerprint(j))
        => /\ read_back.result.ok
           /\ read_back.result.value = [j \in 1..Len(given) |-> ExpectedBack(given[j])]

====
